---- MODULE Spec2Model ----
(***************************************************************************)
(* Smart-home anomaly detection engine                                     *)
(* (python-implementation/smart_home_anomaly_detection.py).                *)
(*                                                                         *)
(* Timestamps are whole seconds since midnight of day 0 (a datetime), and  *)
(* a timedelta is a number of seconds.  An event is a record holding       *)
(* exactly the keys the event dict holds.  A dict is a function whose      *)
(* DOMAIN is the dict's key set.  A call that raises leaves the name of    *)
(* the exception in `raised` and returns nothing (`returned` is then left   *)
(* as it was).                                                             *)
(*                                                                         *)
(* The role-aware filter takes Unix timestamps; the local time zone is     *)
(* given by its UTC offset in seconds, and datetime.fromtimestamp yields   *)
(* the local time as seconds since 1970-01-01T00:00:00 local, a Thursday.  *)
(***************************************************************************)
EXTENDS Integers, Sequences, FiniteSets, TLC

VARIABLES
    state,        \* the module-level dict `state` (five per-key maps)
    anomaly_log,  \* anomaly_log.json: number of lines and the last line
    returned,     \* the list the last process_event call that returned, returned
    last_event,   \* the argument of the last process_event call
    recorded,     \* history: every timestamp appended so far, per window key
    steps,        \* number of process_event calls made by the actions
    raised,       \* the exception the last process_event call raised, if any
    suspicious_sequences,  \* the module-level list SUSPICIOUS_SEQUENCES
    role_filter,  \* a RoleAwareFilter object (role_aware_filter.py), if made
    filter_call,  \* the arguments and the result of the last call on it
    invocations,  \* process_event invocations in progress on several threads
    login_module, \* rate_anom_det_login.py: the calls made and the warnings
    power_module, \* val_anom_det_pwr_consum.py: power_readings, the warnings
    multi_user,   \* a MultiUserControlDetector object and its last call
    toggle_spam   \* a ToggleSpamDetector object and its last call

\* What the standalone detector modules and the threads of a caller hold
standalone == <<invocations, login_module, power_module, multi_user,
                toggle_spam>>

vars == <<state, anomaly_log, returned, last_event, recorded, steps, raised,
          suspicious_sequences, role_filter, filter_call, invocations,
          login_module, power_module, multi_user, toggle_spam>>

----------------------------------------------------------------------------
(* Program constants *)

BUSINESS_HOURS_START == 9
BUSINESS_HOURS_END == 17
FAILED_LOGIN_WINDOW == 60
FAILED_LOGIN_THRESHOLD == 5
CONTROL_COMMAND_WINDOW == 30
CONTROL_COMMAND_THRESHOLD == 10
CONTROL_COMMAND_THRESHOLD_ADMIN == 20
POWER_READING_HISTORY == 100
SUSPICIOUS_SEQUENCES ==
    << [sequence |-> <<"disable_alarm", "unlock_door">>, time_window |-> 10] >>

----------------------------------------------------------------------------
(* Dicts *)

EmptyDict == [k \in {} |-> 0]

\* d[k] = v
DictSet(d, k, v) == (k :> v) @@ d

\* d.setdefault(k, dflt): the dict after the call
SetDefault(d, k, dflt) == IF k \in DOMAIN d THEN d ELSE DictSet(d, k, dflt)

\* d.get(k, dflt)
DictGet(d, k, dflt) == IF k \in DOMAIN d THEN d[k] ELSE dflt

\* Python's None
None == [type |-> "None"]

\* No exception was raised
NoException == "None"

\* event[k] raises KeyError for one of the keys
Missing(event, keys) == \E k \in keys : k \notin DOMAIN event

----------------------------------------------------------------------------
(* Helpers *)

\* datetime.hour
HourOf(timestamp) == (timestamp \div 3600) % 24

\* Variant of is_business_hours with the end hour included
is_business_hours_inclusive(timestamp) ==
    LET hour == HourOf(timestamp)
    IN  BUSINESS_HOURS_START <= hour /\ hour <= BUSINESS_HOURS_END

is_business_hours(timestamp) ==
    LET hour == HourOf(timestamp)
    IN  BUSINESS_HOURS_START <= hour /\ hour < BUSINESS_HOURS_END

\* Variant of popleft_while with the operands of the age swapped
RECURSIVE popleft_while_swapped(_, _, _)
popleft_while_swapped(q, now, window) ==
    IF q # <<>> /\ Head(q) - now > window
    THEN popleft_while_swapped(Tail(q), now, window)
    ELSE q

\* Variant of popleft_while that also evicts an entry exactly at the boundary
RECURSIVE popleft_while_ge(_, _, _)
popleft_while_ge(q, now, window) ==
    IF q # <<>> /\ now - Head(q) >= window
    THEN popleft_while_ge(Tail(q), now, window)
    ELSE q

\* Variant of popleft_while that removes one expired entry at most (if for
\* while)
popleft_while_once(q, now, window) ==
    IF q # <<>> /\ now - Head(q) > window THEN Tail(q) ELSE q

\* while q and now - q[0] > window: q.popleft()
RECURSIVE popleft_while(_, _, _)
popleft_while(q, now, window) ==
    IF q # <<>> /\ now - Head(q) > window
    THEN popleft_while(Tail(q), now, window)
    ELSE q

\* sum(s), added up by halves
RECURSIVE SumSeq(_)
SumSeq(s) ==
    IF s = <<>> THEN 0
    ELSE IF Len(s) = 1 THEN s[1]
    ELSE LET half == Len(s) \div 2
         IN  SumSeq(SubSeq(s, 1, half)) + SumSeq(SubSeq(s, half + 1, Len(s)))

\* Variant of YoungerThan that keeps an entry of exactly that age (<= for <)
RECURSIVE YoungerThan_le(_, _, _)
YoungerThan_le(recent_commands, timestamp, age) ==
    IF recent_commands = <<>> THEN <<>>
    ELSE LET rest == YoungerThan_le(Tail(recent_commands), timestamp, age)
         IN  IF timestamp - Head(recent_commands)[2] <= age
             THEN <<Head(recent_commands)>> \o rest
             ELSE rest

\* [(cmd, ts) for cmd, ts in recent_commands if timestamp - ts < age]
RECURSIVE YoungerThan(_, _, _)
YoungerThan(recent_commands, timestamp, age) ==
    IF recent_commands = <<>> THEN <<>>
    ELSE LET rest == YoungerThan(Tail(recent_commands), timestamp, age)
         IN  IF timestamp - Head(recent_commands)[2] < age
             THEN <<Head(recent_commands)>> \o rest
             ELSE rest

\* s[-n:]
LastN(s, n) == SubSeq(s, Len(s) - n + 1, Len(s))

\* The result of one detector: (is_anomaly, anomaly_info) and the state it leaves
Result(is_anomaly, anomaly_info, st) ==
    [is_anomaly |-> is_anomaly, anomaly_info |-> anomaly_info, state |-> st,
     exception |-> NoException]

\* The detector raised instead of returning, leaving the state st
Raise(exception, st) ==
    [is_anomaly |-> FALSE, anomaly_info |-> None, state |-> st,
     exception |-> exception]

----------------------------------------------------------------------------
(* Detectors *)

\* The failed-login detector with its window update and a choice of firing
\* rule (fires) and of what is stored back (stored); the variants below
\* differ from check_failed_login_rate in one of the two.
FailedLoginWith(event, st, fires(_), stored(_)) ==
    LET user_id == event.user_id
        now == event.timestamp
        before == DictGet(st.failed_logins, user_id, <<>>)
        failed_logins ==
            Append(popleft_while(before, now, FAILED_LOGIN_WINDOW), now)
        st2 == [st EXCEPT !.failed_logins =
                    DictSet(@, user_id, stored(failed_logins))]
    IN  IF fires(failed_logins)
        THEN Result(TRUE,
                    [type |-> "failed_login_rate",
                     user_id |-> user_id,
                     count |-> Len(failed_logins)],
                    st2)
        ELSE Result(FALSE, None, st2)

\* Variant: fires when the count reaches the threshold (>= for >)
check_failed_login_rate_ge(event, st) ==
    IF event.type = "login_attempt" /\ ~event.success
    THEN FailedLoginWith(event, st,
                         LAMBDA q : Len(q) >= FAILED_LOGIN_THRESHOLD,
                         LAMBDA q : q)
    ELSE Result(FALSE, None, st)

\* Variant: clears the user's window after firing
check_failed_login_rate_clear(event, st) ==
    IF event.type = "login_attempt" /\ ~event.success
    THEN FailedLoginWith(event, st,
                         LAMBDA q : Len(q) > FAILED_LOGIN_THRESHOLD,
                         LAMBDA q : IF Len(q) > FAILED_LOGIN_THRESHOLD
                                    THEN <<>> ELSE q)
    ELSE Result(FALSE, None, st)

\* Variant: a successful login clears the user's window
check_failed_login_rate_reset(event, st) ==
    IF event.type = "login_attempt" /\ ~event.success
    THEN FailedLoginWith(event, st,
                         LAMBDA q : Len(q) > FAILED_LOGIN_THRESHOLD,
                         LAMBDA q : q)
    ELSE IF event.type = "login_attempt" /\ event.user_id \in DOMAIN st.failed_logins
    THEN Result(FALSE, None,
                [st EXCEPT !.failed_logins = DictSet(@, event.user_id, <<>>)])
    ELSE Result(FALSE, None, st)

\* Variant: one window for the failed logins of all users
check_failed_login_rate_shared(event, st) ==
    IF event.type = "login_attempt" /\ ~event.success
    THEN FailedLoginWith([event EXCEPT !.user_id = "*"], st,
                         LAMBDA q : Len(q) > FAILED_LOGIN_THRESHOLD,
                         LAMBDA q : q)
    ELSE Result(FALSE, None, st)

check_failed_login_rate(event, st) ==
    IF Missing(event, {"type"}) THEN Raise("KeyError", st)
    ELSE IF event.type # "login_attempt" THEN Result(FALSE, None, st)
    ELSE IF Missing(event, {"success"}) THEN Raise("KeyError", st)
    ELSE IF event.success THEN Result(FALSE, None, st)
    ELSE IF Missing(event, {"user_id", "timestamp"}) THEN Raise("KeyError", st)
    ELSE LET user_id == event.user_id
             now == event.timestamp
             before == DictGet(st.failed_logins, user_id, <<>>)
             failed_logins ==
                 Append(popleft_while(before, now, FAILED_LOGIN_WINDOW), now)
             st2 == [st EXCEPT !.failed_logins = DictSet(@, user_id, failed_logins)]
         IN  IF Len(failed_logins) > FAILED_LOGIN_THRESHOLD
             THEN Result(TRUE,
                         [type |-> "failed_login_rate",
                          user_id |-> user_id,
                          count |-> Len(failed_logins)],
                         st2)
             ELSE Result(FALSE, None, st2)

check_control_command_rate(event, st) ==
    IF Missing(event, {"type"}) THEN Raise("KeyError", st)
    ELSE IF event.type # "control_command" THEN Result(FALSE, None, st)
    ELSE IF Missing(event, {"user_id", "role", "timestamp", "device_id"})
    THEN Raise("KeyError", st)
    ELSE LET user_id == event.user_id
             role == event.role
             timestamp == event.timestamp
             device_id == event.device_id
             key == <<user_id, device_id>>
             before == DictGet(st.control_commands, key, <<>>)
             commands ==
                 Append(popleft_while(before, timestamp, CONTROL_COMMAND_WINDOW),
                        timestamp)
             count == Len(commands)
             threshold ==
                 IF role \in {"ADMIN", "MANAGER"} /\ is_business_hours(timestamp)
                 THEN CONTROL_COMMAND_THRESHOLD_ADMIN
                 ELSE CONTROL_COMMAND_THRESHOLD
             st2 == [st EXCEPT !.control_commands = DictSet(@, key, commands)]
         IN  IF count > threshold
             THEN Result(TRUE,
                         [type |-> "control_command_rate",
                          user_id |-> user_id,
                          device_id |-> device_id,
                          count |-> count],
                         st2)
             ELSE Result(FALSE, None, st2)

\* value > 1.5 * (sum(h) / len(h)).  The float comparison is the exact one,
\* 2 * value * len(h) > 3 * sum(h), for every integer reading and history
\* the model draws (sums below 2^53, at most 101 readings).
ExceedsBaseline(value, historical_values) ==
    2 * value * Len(historical_values) > 3 * SumSeq(historical_values)

\* The power detector with a choice of validity test (invalid), of
\* comparison against the baseline (exceeds) and of eviction from a history
\* over the cap (evict); the variants below differ from
\* check_power_consumption in one of the three.
PowerWith(event, st, invalid(_), exceeds(_, _), evict(_)) ==
    LET device_id == event.device_id
        value == event.value
    IN  IF invalid(value)
        THEN Result(TRUE,
                    [type |-> "invalid_power_reading",
                     device_id |-> device_id,
                     value |-> value],
                    st)
        ELSE LET readings == SetDefault(st.power_readings, device_id, <<>>)
                 historical_values == readings[device_id]
                 appended == Append(historical_values, value)
                 capped == IF Len(appended) > POWER_READING_HISTORY
                           THEN evict(appended)
                           ELSE appended
             IN  IF historical_values # <<>> /\ exceeds(value, historical_values)
                 THEN Result(TRUE,
                             [type |-> "high_power_reading",
                              device_id |-> device_id,
                              value |-> value,
                              average |-> [sum |-> SumSeq(historical_values),
                                           len |-> Len(historical_values)]],
                             [st EXCEPT !.power_readings = readings])
                 ELSE Result(FALSE, None,
                             [st EXCEPT !.power_readings =
                                  DictSet(readings, device_id, capped)])

\* Variant: only a negative value is invalid (< for <=)
check_power_consumption_lt(event, st) ==
    IF event.type = "sensor_reading" /\ event.reading_type = "power"
    THEN PowerWith(event, st, LAMBDA v : v < 0, ExceedsBaseline, Tail)
    ELSE Result(FALSE, None, st)

\* Variant: a reading of exactly 1.5 times the average is high (>= for >)
check_power_consumption_ge(event, st) ==
    IF event.type = "sensor_reading" /\ event.reading_type = "power"
    THEN PowerWith(event, st, LAMBDA v : v <= 0,
                   LAMBDA v, h : 2 * v * Len(h) >= 3 * SumSeq(h), Tail)
    ELSE Result(FALSE, None, st)

\* Variant: a history over the cap loses its newest value (pop() for pop(0))
check_power_consumption_poplast(event, st) ==
    IF event.type = "sensor_reading" /\ event.reading_type = "power"
    THEN PowerWith(event, st, LAMBDA v : v <= 0, ExceedsBaseline,
                   LAMBDA h : SubSeq(h, 1, Len(h) - 1))
    ELSE Result(FALSE, None, st)

check_power_consumption(event, st) ==
    IF Missing(event, {"type"}) THEN Raise("KeyError", st)
    ELSE IF event.type # "sensor_reading" THEN Result(FALSE, None, st)
    ELSE IF Missing(event, {"reading_type"}) THEN Raise("KeyError", st)
    ELSE IF event.reading_type # "power" THEN Result(FALSE, None, st)
    ELSE IF Missing(event, {"device_id", "value"}) THEN Raise("KeyError", st)
    ELSE LET device_id == event.device_id
             value == event.value
         IN  IF value <= 0
             THEN Result(TRUE,
                         [type |-> "invalid_power_reading",
                          device_id |-> device_id,
                          value |-> value],
                         st)
             ELSE LET readings == SetDefault(st.power_readings, device_id, <<>>)
                      historical_values == readings[device_id]
                      appended == Append(historical_values, value)
                      capped == IF Len(appended) > POWER_READING_HISTORY
                                THEN Tail(appended)
                                ELSE appended
                  IN  IF historical_values # <<>>
                         /\ ExceedsBaseline(value, historical_values)
                      THEN Result(TRUE,
                                  [type |-> "high_power_reading",
                                   device_id |-> device_id,
                                   value |-> value,
                                   average |-> [sum |-> SumSeq(historical_values),
                                                len |-> Len(historical_values)]],
                                  [st EXCEPT !.power_readings = readings])
                      ELSE Result(FALSE, None,
                                  [st EXCEPT !.power_readings =
                                       DictSet(readings, device_id, capped)])

\* Variant: a device that fired is added to the user's profile
check_unusual_device_access_learn(event, st) ==
    IF event.type # "control_command" THEN Result(FALSE, None, st)
    ELSE LET user_id == event.user_id
             device_id == event.device_id
             profiles == SetDefault(st.user_profiles, user_id, {})
             common_devices == profiles[user_id]
         IN  IF device_id \notin common_devices
             THEN Result(TRUE,
                         [type |-> "unusual_device_access",
                          user_id |-> user_id,
                          device_id |-> device_id],
                         [st EXCEPT !.user_profiles =
                              DictSet(profiles, user_id,
                                      common_devices \cup {device_id})])
             ELSE Result(FALSE, None, [st EXCEPT !.user_profiles = profiles])

check_unusual_device_access(event, st) ==
    IF Missing(event, {"type"}) THEN Raise("KeyError", st)
    ELSE IF event.type # "control_command" THEN Result(FALSE, None, st)
    ELSE IF Missing(event, {"user_id", "device_id"}) THEN Raise("KeyError", st)
    ELSE LET user_id == event.user_id
             device_id == event.device_id
             profiles == SetDefault(st.user_profiles, user_id, {})
             common_devices == profiles[user_id]
             st2 == [st EXCEPT !.user_profiles = profiles]
         IN  IF device_id \notin common_devices
             THEN Result(TRUE,
                         [type |-> "unusual_device_access",
                          user_id |-> user_id,
                          device_id |-> device_id],
                         st2)
             ELSE Result(FALSE, None, st2)

\* Variant of FirstMatch: the span must be under the time window (< for <=)
RECURSIVE FirstMatch_lt(_, _, _)
FirstMatch_lt(i, recent_commands, timestamp) ==
    IF i > Len(suspicious_sequences) THEN 0
    ELSE LET sequence == suspicious_sequences[i].sequence
             time_window == suspicious_sequences[i].time_window
             n == Len(sequence)
         IN  IF /\ Len(recent_commands) >= n
                /\ LET tail == LastN(recent_commands, n)
                   IN  /\ [j \in 1..n |-> tail[j][1]] = sequence
                       /\ timestamp - tail[1][2] < time_window
             THEN i
             ELSE FirstMatch_lt(i + 1, recent_commands, timestamp)

\* for sequence, time_window in SUSPICIOUS_SEQUENCES: ... return True, {...}
\* The first configured sequence, in list order from index i, that the tail
\* of recent_commands matches within its time window; 0 when none does.
RECURSIVE FirstMatch(_, _, _)
FirstMatch(i, recent_commands, timestamp) ==
    IF i > Len(suspicious_sequences) THEN 0
    ELSE LET sequence == suspicious_sequences[i].sequence
             time_window == suspicious_sequences[i].time_window
             n == Len(sequence)
         IN  IF /\ Len(recent_commands) >= n
                /\ LET tail == LastN(recent_commands, n)
                   IN  /\ [j \in 1..n |-> tail[j][1]] = sequence
                       /\ timestamp - tail[1][2] <= time_window
             THEN i
             ELSE FirstMatch(i + 1, recent_commands, timestamp)

check_command_sequence(event, st) ==
    IF Missing(event, {"type"}) THEN Raise("KeyError", st)
    ELSE IF event.type # "control_command" THEN Result(FALSE, None, st)
    ELSE IF Missing(event, {"user_id", "command", "timestamp"})
    THEN Raise("KeyError", st)
    ELSE LET user_id == event.user_id
             command == event.command
             timestamp == event.timestamp
             before == DictGet(st.user_commands, user_id, <<>>)
             recent_commands ==
                 Append(YoungerThan(before, timestamp, 60), <<command, timestamp>>)
             st2 == [st EXCEPT !.user_commands = DictSet(@, user_id, recent_commands)]
             m == FirstMatch(1, recent_commands, timestamp)
         IN  IF m # 0
             THEN Result(TRUE,
                         [type |-> "suspicious_sequence",
                          user_id |-> user_id,
                          sequence |-> suspicious_sequences[m].sequence],
                         st2)
             ELSE Result(FALSE, None, st2)

detectors ==
    << "check_failed_login_rate",
       "check_control_command_rate",
       "check_power_consumption",
       "check_unusual_device_access",
       "check_command_sequence" >>

\* detector(event, state)
CallDetector(detector, event, st) ==
    CASE detector = "check_failed_login_rate" -> check_failed_login_rate(event, st)
      [] detector = "check_control_command_rate" -> check_control_command_rate(event, st)
      [] detector = "check_power_consumption" -> check_power_consumption(event, st)
      [] detector = "check_unusual_device_access" -> check_unusual_device_access(event, st)
      [] detector = "check_command_sequence" -> check_command_sequence(event, st)

----------------------------------------------------------------------------
(* Logging and the main processing function *)

\* datetime.isoformat(): the date and time fields, written out
isoformat(timestamp) ==
    [day |-> timestamp \div 86400,
     hour |-> HourOf(timestamp),
     minute |-> (timestamp \div 60) % 60,
     second |-> timestamp % 60]

\* log_event(event, anomalies): the file after the call and the exception
\* raised, if any.  event_copy["timestamp"] raises KeyError for an event
\* without a timestamp; open(..., "a") raises OSError when the file cannot
\* be opened for appending, and then nothing is written.
log_event(log, event, anomalies) ==
    IF Missing(event, {"timestamp"})
    THEN [log |-> log, exception |-> "KeyError"]
    ELSE IF ~log.writable
    THEN [log |-> log, exception |-> "OSError"]
    ELSE LET event_copy == [event EXCEPT !.timestamp = isoformat(@)]
             log_entry == [timestamp |-> event_copy.timestamp,
                           event |-> event_copy,
                           anomalies |-> anomalies,
                           alert |-> Len(anomalies) > 0]
         IN  [log |-> [log EXCEPT !.lines = @ + 1, !.last = log_entry],
              exception |-> NoException]

\* What the detector loop leaves: the state, the anomalies collected and the
\* exception that ended it, if any
Collected(st, anomalies, exception) ==
    [state |-> st, anomalies |-> anomalies, exception |-> exception]

\* anomalies after `if is_anomaly: anomalies.append(anomaly_info)`
Appended(anomalies, r) ==
    IF r.is_anomaly THEN Append(anomalies, r.anomaly_info) ELSE anomalies

\* Variant of RunDetectors that stops at the first detector that fires
RECURSIVE RunDetectors_first(_, _, _, _)
RunDetectors_firstStep(i, event, anomalies, r) ==
    IF r.exception # NoException \/ r.is_anomaly
    THEN Collected(r.state, Appended(anomalies, r), r.exception)
    ELSE RunDetectors_first(i + 1, event, r.state, anomalies)

RunDetectors_first(i, event, st, anomalies) ==
    IF i > Len(detectors) THEN Collected(st, anomalies, NoException)
    ELSE RunDetectors_firstStep(i, event, anomalies,
                                CallDetector(detectors[i], event, st))

\* One turn of the detector loop, r being what the i-th detector did: an
\* exception raised by the detector ends the loop and leaves the call
RECURSIVE RunDetectors(_, _, _, _)
RunDetectorsStep(i, event, anomalies, r) ==
    IF r.exception # NoException
    THEN Collected(r.state, anomalies, r.exception)
    ELSE RunDetectors(i + 1, event, r.state, Appended(anomalies, r))

\* for detector in detectors: ... anomalies.append(anomaly_info)
RunDetectors(i, event, st, anomalies) ==
    IF i > Len(detectors) THEN Collected(st, anomalies, NoException)
    ELSE RunDetectorsStep(i, event, anomalies,
                          CallDetector(detectors[i], event, st))

\* History of the values handed to deque.append, per window key
Record(rec, event) ==
    IF Missing(event, {"type"}) THEN rec
    ELSE IF event.type = "login_attempt"
    THEN IF Missing(event, {"success", "user_id", "timestamp"}) THEN rec
         ELSE IF event.success THEN rec
         ELSE [rec EXCEPT !.failed_logins =
                   DictSet(@, event.user_id,
                           Append(DictGet(@, event.user_id, <<>>),
                                  event.timestamp))]
    ELSE IF event.type = "control_command"
    THEN IF Missing(event, {"user_id", "role", "timestamp", "device_id"})
         THEN rec
         ELSE LET key == <<event.user_id, event.device_id>>
              IN  [rec EXCEPT !.control_commands =
                       DictSet(@, key,
                               Append(DictGet(@, key, <<>>), event.timestamp))]
    ELSE rec

\* The system after a call process_event(event) that left the detector
\* state st and the file log, and returned a list or raised an exception
Outcome(sys, event, st, log, list, exception) ==
    [state |-> st,
     anomaly_log |-> log,
     returned |-> list,
     last_event |-> event,
     recorded |-> Record(sys.recorded, event),
     raised |-> exception]

\* log_event(event, anomalies); return anomalies
\* l is what log_event did: when it raised, the call returns nothing
Logged(sys, event, r, l) ==
    Outcome(sys, event, r.state, l.log,
            IF l.exception = NoException THEN r.anomalies ELSE sys.returned,
            l.exception)

\* The rest of process_event after the detector loop, r being what the loop
\* left: when a detector raised, log_event is not reached
AfterDetectors(sys, event, r) ==
    IF r.exception # NoException
    THEN Outcome(sys, event, r.state, sys.anomaly_log, sys.returned, r.exception)
    ELSE Logged(sys, event, r, log_event(sys.anomaly_log, event, r.anomalies))

\* process_event(event) as a function of the whole system: the detectors
\* run, then log_event, then the list is returned; an exception from either
\* leaves the call with what was done so far and returns nothing, so
\* `returned` stays the list an earlier call returned.
process_event(sys, event) ==
    AfterDetectors(sys, event, RunDetectors(1, event, sys.state, <<>>))

\* The system after processing the events of a list in order (the list is
\* split in halves, which keeps the evaluation shallow)
RECURSIVE Replay(_, _)
Replay(sys, events) ==
    IF events = <<>> THEN sys
    ELSE IF Len(events) = 1 THEN process_event(sys, events[1])
    ELSE LET half == Len(events) \div 2
             mid == Replay(sys, SubSeq(events, 1, half))
         IN  IF mid.anomaly_log.lines >= sys.anomaly_log.lines
             THEN Replay(mid, SubSeq(events, half + 1, Len(events)))
             ELSE sys

\* The module as loaded: empty maps, the two pre-populated profiles, no log
Loaded ==
    [state |->
        [failed_logins |-> EmptyDict,
         control_commands |-> EmptyDict,
         power_readings |-> EmptyDict,
         user_profiles |->
             DictSet(DictSet(EmptyDict, "user1", {"light1", "thermostat1"}),
                     "admin1", {"light1", "camera1", "alarm1", "door1"}),
         user_commands |-> EmptyDict],
     anomaly_log |-> [lines |-> 0, last |-> None, writable |-> TRUE],
     returned |-> <<>>,
     last_event |-> None,
     recorded |-> [failed_logins |-> EmptyDict, control_commands |-> EmptyDict],
     raised |-> NoException]

Sys == [state |-> state, anomaly_log |-> anomaly_log,
        returned |-> returned, last_event |-> last_event, recorded |-> recorded,
        raised |-> raised]

\* No standalone detector module is loaded and no thread is started
NoStandalone ==
    /\ invocations = None
    /\ login_module = None
    /\ power_module = None
    /\ multi_user = None
    /\ toggle_spam = None

\* The system starts as `sys`, with the list `sequences` configured
StartWith(sequences, sys) ==
    /\ suspicious_sequences = sequences
    /\ role_filter = None
    /\ filter_call = None
    /\ NoStandalone
    /\ state = sys.state
    /\ anomaly_log = sys.anomaly_log
    /\ returned = sys.returned
    /\ last_event = sys.last_event
    /\ recorded = sys.recorded
    /\ raised = sys.raised
    /\ steps = 0

\* The system starts as `sys`, with the list of the source configured
StartAt(sys) ==
    /\ suspicious_sequences = SUSPICIOUS_SEQUENCES
    /\ role_filter = None
    /\ filter_call = None
    /\ NoStandalone
    /\ raised = sys.raised
    /\ state = sys.state
    /\ anomaly_log = sys.anomaly_log
    /\ returned = sys.returned
    /\ last_event = sys.last_event
    /\ recorded = sys.recorded
    /\ steps = 0

\* The system becomes `sys` by one call of process_event
Becomes(sys) ==
    /\ state' = sys.state
    /\ anomaly_log' = sys.anomaly_log
    /\ returned' = sys.returned
    /\ last_event' = sys.last_event
    /\ recorded' = sys.recorded
    /\ raised' = sys.raised
    /\ steps' = steps + 1
    /\ UNCHANGED <<suspicious_sequences, role_filter, filter_call>>
    /\ UNCHANGED standalone

\* One call process_event(event)
Process(event) == Becomes(process_event(Sys, event))

----------------------------------------------------------------------------
(* The role-aware filter (role_aware_filter.py) *)

\* datetime.fromtimestamp(timestamp) in a zone `utcoffset` seconds ahead of UTC
fromtimestamp(timestamp, utcoffset) == timestamp + utcoffset

\* datetime.weekday(): Monday is 0, Sunday is 6
weekday(dt) == ((dt \div 86400) + 3) % 7

\* A function object
Function(name) == [type |-> "function", name |-> name]

\* Variant of default_is_business_hours with the end hour excluded
default_is_business_hours_exclusive(timestamp, utcoffset) ==
    LET dt == fromtimestamp(timestamp, utcoffset)
    IN  IF weekday(dt) >= 5 THEN FALSE
        ELSE 9 <= HourOf(dt) /\ HourOf(dt) < 17

default_is_business_hours(timestamp, utcoffset) ==
    LET dt == fromtimestamp(timestamp, utcoffset)
    IN  IF weekday(dt) >= 5 THEN FALSE
        ELSE 9 <= HourOf(dt) /\ HourOf(dt) <= 17

\* RoleAwareFilter(ignore_roles_during_business_hours, is_business_hours_func)
RoleAwareFilter(ignore_roles_during_business_hours, is_business_hours_func) ==
    [ignore_roles |->
         {ignore_roles_during_business_hours[i] :
              i \in 1..Len(ignore_roles_during_business_hours)},
     is_business_hours |->
         IF is_business_hours_func = None
         THEN Function("default_is_business_hours")
         ELSE is_business_hours_func]

\* self.is_business_hours(timestamp): the default, or the function given to
\* the constructor (here one that holds at every timestamp)
CallIsBusinessHours(self, timestamp, utcoffset) ==
    CASE self.is_business_hours.name = "default_is_business_hours" ->
             default_is_business_hours(timestamp, utcoffset)
      [] self.is_business_hours.name = "always" -> TRUE

\* Variant of filter_event that processes a privileged role's event in
\* business hours only
filter_event_inverted(self, event_name, user_role, user_id, source_id, timestamp, context, utcoffset) ==
    IF user_role \in self.ignore_roles
    THEN CallIsBusinessHours(self, timestamp, utcoffset)
    ELSE TRUE

filter_event(self, event_name, user_role, user_id, source_id, timestamp, context, utcoffset) ==
    IF user_role \in self.ignore_roles
    THEN ~CallIsBusinessHours(self, timestamp, utcoffset)
    ELSE TRUE

----------------------------------------------------------------------------
(* Events *)

LoginEvent(user_id, timestamp, success) ==
    [type |-> "login_attempt", timestamp |-> timestamp,
     user_id |-> user_id, success |-> success]

ControlEvent(user_id, role, device_id, command, timestamp) ==
    [type |-> "control_command", timestamp |-> timestamp, user_id |-> user_id,
     role |-> role, device_id |-> device_id, command |-> command]

SensorEvent(device_id, reading_type, value, timestamp) ==
    [type |-> "sensor_reading", timestamp |-> timestamp, device_id |-> device_id,
     reading_type |-> reading_type, value |-> value]

\* The event dict without one of its keys
Without(event, key) == [k \in DOMAIN event \ {key} |-> event[k]]

\* process_event has been called at least once
Called == anomaly_log.lines > 0

IsFailedLogin(e) == e.type = "login_attempt" /\ ~e.success

IsPowerReading(e) == e.type = "sensor_reading" /\ e.reading_type = "power"

----------------------------------------------------------------------------
(* Failed-login specification: failed and successful login attempts of two *)
(* users, in any timestamp order, and events of another type, after a      *)
(* burst of user1's failures 5 s apart.                                     *)

MaxLoginSeed == 5
MaxLoginSteps == 3

LoginUsers == {"user1", "admin1"}
LoginTimes == {25, 30, 61, 122}

\* k failed logins of user1 at 0, 5, 10, ...
LoginSeed(k) == [i \in 1..k |-> LoginEvent("user1", 5 * (i - 1), FALSE)]

InitLogin == \E k \in 0..MaxLoginSeed : StartAt(Replay(Loaded, LoginSeed(k)))

FailedLogin ==
    /\ steps < MaxLoginSteps
    /\ \E u \in LoginUsers, t \in LoginTimes : Process(LoginEvent(u, t, FALSE))

SuccessfulLogin ==
    /\ steps < MaxLoginSteps
    /\ \E u \in LoginUsers : Process(LoginEvent(u, 30, TRUE))

Logout ==
    /\ steps < MaxLoginSteps
    /\ Process([type |-> "logout", timestamp |-> 30, user_id |-> "user1"])

NextLogin == FailedLogin \/ SuccessfulLogin \/ Logout

SpecLogin == InitLogin /\ [][NextLogin]_vars

----------------------------------------------------------------------------
(* Control-command specification: commands of admin1 on two devices under   *)
(* three roles, at the seconds around 09:00 and 17:00, after a burst of     *)
(* commands on light1 that stops one short of a threshold.                  *)

MaxControlSteps == 2

ControlDevices == {"light1", "camera1"}
ControlRoles == {"ADMIN", "MANAGER", "USER"}
\* 08:59:59, 09:00:00, 16:59:59, 17:00:00
ControlTimes == {32399, 32400, 61199, 61200}
ControlSeedTimes == {32399, 61199}
ControlSeedLens ==
    {0, CONTROL_COMMAND_THRESHOLD - 1, CONTROL_COMMAND_THRESHOLD_ADMIN - 1}

\* k commands of admin1 (ADMIN) on light1, all at time t
ControlSeed(k, t) ==
    [i \in 1..k |-> ControlEvent("admin1", "ADMIN", "light1", "on", t)]

InitControl ==
    \E k \in ControlSeedLens, t \in ControlSeedTimes :
        StartAt(Replay(Loaded, ControlSeed(k, t)))

ControlCommand ==
    /\ steps < MaxControlSteps
    /\ \E d \in ControlDevices, r \in ControlRoles, t \in ControlTimes :
           Process(ControlEvent("admin1", r, d, "on", t))

SpecControl == InitControl /\ [][ControlCommand]_vars

----------------------------------------------------------------------------
(* Window specification: failed logins (60 s window) of two users and       *)
(* control commands (30 s window) on two devices, at times on and around    *)
(* the window boundaries and in any order, after a burst of each.           *)

MaxWindowSteps == 4

WindowLoginTimes == {60, 65}
WindowControlTimes == {1, 31}

InitWindow ==
    \E nl \in {0, MaxLoginSeed}, nc \in {0, CONTROL_COMMAND_THRESHOLD} :
        StartAt(Replay(Loaded, LoginSeed(nl) \o ControlSeed(nc, 0)))

WindowLogin ==
    /\ steps < MaxWindowSteps
    /\ \E u \in LoginUsers, t \in WindowLoginTimes :
           Process(LoginEvent(u, t, FALSE))

WindowControl ==
    /\ steps < MaxWindowSteps
    /\ \E d \in ControlDevices, t \in WindowControlTimes :
           Process(ControlEvent("admin1", "USER", d, "on", t))

NextWindow == WindowLogin \/ WindowControl

SpecWindow == InitWindow /\ [][NextWindow]_vars

----------------------------------------------------------------------------
(* Power specification: sensor readings of two devices, after a run of      *)
(* readings of appliance1 that stops one short of the history cap.          *)

MaxPowerSteps == 3

PowerDevices == {"appliance1", "appliance2"}
PowerValues == {-5, 0, 100, 150, 151}
PowerSeedLens == {0, POWER_READING_HISTORY - 1}

\* k readings of appliance1: 150 first, then 100s (none of them high)
PowerSeed(k) ==
    [i \in 1..k |->
        SensorEvent("appliance1", "power", IF i = 1 THEN 150 ELSE 100, 0)]

InitPower == \E k \in PowerSeedLens : StartAt(Replay(Loaded, PowerSeed(k)))

PowerReading ==
    /\ steps < MaxPowerSteps
    /\ \E d \in PowerDevices, v \in PowerValues :
           Process(SensorEvent(d, "power", v, 0))

OtherReading ==
    /\ steps < MaxPowerSteps
    /\ \E d \in PowerDevices :
           Process(SensorEvent(d, "temperature", 0, 0))

NextPower == PowerReading \/ OtherReading

SpecPower == InitPower /\ [][NextPower]_vars

----------------------------------------------------------------------------
(* Command-sequence specification: commands of user1 at times in any order  *)
(* and of admin1 at one time, all on one device, under the list of the      *)
(* source or under a list of two sequences of which one ends with the       *)
(* other.                                                                   *)

MaxSequenceSteps == 3

SequenceCommands == {"disable_alarm", "unlock_door", "disable_camera"}
SequenceTimes == {0, 10, 11, 70}

\* A list of two sequences: the one of the source and a longer one
TwoSequences ==
    SUSPICIOUS_SEQUENCES
    \o << [sequence |-> <<"disable_camera", "disable_alarm", "unlock_door">>,
           time_window |-> 20] >>

InitSequence ==
    \E sequences \in {SUSPICIOUS_SEQUENCES, TwoSequences} :
        StartWith(sequences, Loaded)

UserCommand ==
    /\ steps < MaxSequenceSteps
    /\ \E c \in SequenceCommands, t \in SequenceTimes :
           Process(ControlEvent("user1", "USER", "alarm1", c, t))

AdminCommand ==
    /\ steps < MaxSequenceSteps
    /\ \E c \in {"disable_alarm", "unlock_door"} :
           Process(ControlEvent("admin1", "ADMIN", "alarm1", c, 10))

NextSequence == UserCommand \/ AdminCommand

SpecSequence == InitSequence /\ [][NextSequence]_vars

----------------------------------------------------------------------------
(* Device-access specification: commands of the two users with a profile    *)
(* and of a user without one, on a device both profiles hold and on one     *)
(* only admin1's holds, under two roles, inside and outside business hours. *)

MaxAccessSteps == 2

AccessUsers == {"user1", "admin1", "guest"}
AccessDevices == {"light1", "camera1"}
AccessRoles == {"ADMIN", "USER"}
\* 00:00:00 and 12:00:00
AccessTimes == {0, 43200}

InitAccess == StartAt(Loaded)

AccessCommand ==
    /\ steps < MaxAccessSteps
    /\ \E u \in AccessUsers, d \in AccessDevices, r \in AccessRoles,
          t \in AccessTimes :
           Process(ControlEvent(u, r, d, "on", t))

SpecAccess == InitAccess /\ [][AccessCommand]_vars

----------------------------------------------------------------------------
(* Dispatch specification: events of the three types, among them commands   *)
(* of user1 that can fire three detectors at once, after a burst of user1's *)
(* commands on camera1 that reaches the rate threshold.                     *)

MaxDispatchSteps == 2

DispatchSeedLens == {0, CONTROL_COMMAND_THRESHOLD}
DispatchTimes == {0, 5}

\* k commands of user1 (USER) on camera1, all at time 0
DispatchSeed(k) ==
    [i \in 1..k |-> ControlEvent("user1", "USER", "camera1", "on", 0)]

InitDispatch ==
    \E k \in DispatchSeedLens : StartAt(Replay(Loaded, DispatchSeed(k)))

DispatchCommand ==
    /\ steps < MaxDispatchSteps
    /\ \E d \in AccessDevices, c \in {"disable_alarm", "unlock_door"},
          t \in DispatchTimes :
           Process(ControlEvent("user1", "USER", d, c, t))

DispatchLogin ==
    /\ steps < MaxDispatchSteps
    /\ \E success \in BOOLEAN : Process(LoginEvent("user1", 0, success))

DispatchReading ==
    /\ steps < MaxDispatchSteps
    /\ \E v \in {-5, 100, 151} : Process(SensorEvent("appliance1", "power", v, 0))

NextDispatch == DispatchCommand \/ DispatchLogin \/ DispatchReading

SpecDispatch == InitDispatch /\ [][NextDispatch]_vars

----------------------------------------------------------------------------
(* Fault specification: well-formed events and events that lack one key,    *)
(* with a log file that can stop being writable.                            *)

MaxFaultSteps == 2

FaultUsers == {"user1", "guest"}
FaultTimes == {0, 5}

\* The keys an event dict may lack
AbsentKeys == {"device_id", "command", "role", "success", "value", "timestamp"}

\* The environment: from now on anomaly_log.json cannot be opened for append
SinkBreaks ==
    /\ anomaly_log.writable
    /\ anomaly_log' = [anomaly_log EXCEPT !.writable = FALSE]
    /\ UNCHANGED <<state, returned, last_event, recorded, steps, raised,
                   suspicious_sequences, role_filter, filter_call>>
    /\ UNCHANGED standalone

InitFault == StartAt(Loaded)

FaultCommand ==
    /\ steps < MaxFaultSteps
    /\ \E u \in FaultUsers, c \in {"disable_alarm", "unlock_door"},
          t \in FaultTimes :
           Process(ControlEvent(u, "USER", "camera1", c, t))

FaultLogin ==
    /\ steps < MaxFaultSteps
    /\ \E success \in BOOLEAN : Process(LoginEvent("user1", 0, success))

FaultReading ==
    /\ steps < MaxFaultSteps
    /\ \E v \in {-5, 100} : Process(SensorEvent("appliance1", "power", v, 0))

\* An event that lacks one of the keys of its type
MalformedEvent ==
    /\ steps < MaxFaultSteps
    /\ \E e \in {ControlEvent("user1", "USER", "camera1", "unlock_door", 5),
                 LoginEvent("user1", 0, FALSE),
                 SensorEvent("appliance1", "power", 100, 0)} :
           \E k \in AbsentKeys \cap DOMAIN e : Process(Without(e, k))

NextFault ==
    SinkBreaks \/ FaultCommand \/ FaultLogin \/ FaultReading \/ MalformedEvent

SpecFault == InitFault /\ [][NextFault]_vars

----------------------------------------------------------------------------
(* Filter specification: a RoleAwareFilter made with or without privileged  *)
(* roles and with or without a predicate of its own, called on events of    *)
(* three roles at the seconds around 09:00, 17:00 and 18:00 of a Monday, a  *)
(* Friday, a Saturday and a Sunday, in two time zones; and the two          *)
(* business-hours predicates applied to the same instants.                  *)

\* Days since 1970-01-01: Monday the 5th, Friday the 9th, Saturday the 10th
\* and Sunday the 11th of January 1970
FilterDays == {4, 8, 9, 10}
\* 08:59:59, 09:00:00, 16:59:59, 17:00:00, 17:59:59, 18:00:00
FilterSeconds == {32399, 32400, 61199, 61200, 64799, 64800}
\* UTC-05:00, UTC+05:30
UtcOffsets == {-18000, 19800}
FilterRoles == {"ADMIN", "MANAGER", "USER"}

\* time.mktime: the Unix timestamp of a local day and second of the day
mktime(day, second, utcoffset) == day * 86400 + second - utcoffset

InitFilter ==
    /\ \E roles \in {<<>>, <<"ADMIN", "MANAGER", "ADMIN">>},
          func \in {None, Function("always")} :
           role_filter = RoleAwareFilter(roles, func)
    /\ filter_call = None
    /\ NoStandalone
    /\ suspicious_sequences = SUSPICIOUS_SEQUENCES
    /\ state = Loaded.state
    /\ anomaly_log = Loaded.anomaly_log
    /\ returned = Loaded.returned
    /\ last_event = Loaded.last_event
    /\ recorded = Loaded.recorded
    /\ raised = Loaded.raised
    /\ steps = 0

\* One call role_filter.filter_event(...)
FilterEvent ==
    /\ \E event_name \in {"login_attempt", "control_command"},
          user_role \in FilterRoles, day \in FilterDays,
          second \in FilterSeconds, utcoffset \in UtcOffsets :
           LET timestamp == mktime(day, second, utcoffset)
           IN  filter_call' =
                   [call |-> "filter_event",
                    event_name |-> event_name,
                    user_role |-> user_role,
                    user_id |-> "admin1",
                    source_id |-> "light1",
                    timestamp |-> timestamp,
                    context |-> EmptyDict,
                    utcoffset |-> utcoffset,
                    result |-> filter_event(role_filter, event_name, user_role,
                                            "admin1", "light1", timestamp,
                                            EmptyDict, utcoffset)]
    /\ UNCHANGED <<state, anomaly_log, returned, last_event, recorded, steps,
                   raised, suspicious_sequences, role_filter>>
    /\ UNCHANGED standalone

\* The two business-hours predicates applied to one instant: the engine's
\* to the local datetime, the filter's default to the Unix timestamp
BusinessHours ==
    /\ \E day \in FilterDays, second \in FilterSeconds, utcoffset \in UtcOffsets :
           LET timestamp == mktime(day, second, utcoffset)
           IN  filter_call' =
                   [call |-> "is_business_hours",
                    timestamp |-> timestamp,
                    utcoffset |-> utcoffset,
                    engine |-> is_business_hours(fromtimestamp(timestamp, utcoffset)),
                    filter |-> default_is_business_hours(timestamp, utcoffset)]
    /\ UNCHANGED <<state, anomaly_log, returned, last_event, recorded, steps,
                   raised, suspicious_sequences, role_filter>>
    /\ UNCHANGED standalone

NextFilter == FilterEvent \/ BusinessHours

SpecFilter == InitFilter /\ [][NextFilter]_vars

----------------------------------------------------------------------------
(* Properties of the failed-login detector *)

\* The positions of the anomalies of one type in the last returned list
FiredOf(type) == {i \in 1..Len(returned) : returned[i].type = type}

\* max(h) - min(h)
Span(h) ==
    LET S == {h[i] : i \in 1..Len(h)}
    IN  (CHOOSE x \in S : \A y \in S : y <= x)
        - (CHOOSE x \in S : \A y \in S : x <= y)

\* Every entry is more than `gap` later than the one before it
SpacedBy(h, gap) == \A i \in 1..(Len(h) - 1) : h[i + 1] - h[i] > gap

\* C1: process_event returns a failed_login_rate anomaly exactly when the
\* event is a login_attempt with success == false and the user's window,
\* after the update, holds strictly more than 5 timestamps; there is at most
\* one such anomaly, and its count is the window's length.
C1_FailedLoginFiresIffOver5 ==
    Called =>
        LET fired == FiredOf("failed_login_rate")
        IN  /\ Cardinality(fired) <= 1
            /\ (fired # {}) <=>
                   /\ IsFailedLogin(last_event)
                   /\ Len(state.failed_logins[last_event.user_id]) > 5
            /\ \A i \in fired :
                   /\ returned[i].user_id = last_event.user_id
                   /\ returned[i].count = Len(state.failed_logins[last_event.user_id])

\* The 6th failure in the window has just fired with count 6
C1_Witness ==
    /\ Called
    /\ IsFailedLogin(last_event)
    /\ Len(state.failed_logins[last_event.user_id]) = 6
    /\ \E i \in FiredOf("failed_login_rate") : returned[i].count = 6

\* C2: while all of a user's failed logins lie within one 60 s span, nothing
\* is evicted or reset: the N-th failure leaves N timestamps in the window,
\* fires (once, with count N) when N >= 6 and does not fire when N <= 5.
C2_FiringDoesNotReset ==
    (Called /\ IsFailedLogin(last_event)) =>
        LET u == last_event.user_id
            h == recorded.failed_logins[u]
            fired == FiredOf("failed_login_rate")
        IN  Span(h) <= 60 =>
                /\ state.failed_logins[u] = h
                /\ Len(h) >= 6 =>
                       /\ Cardinality(fired) = 1
                       /\ \A i \in fired : returned[i].count = Len(h)
                /\ Len(h) <= 5 => fired = {}

\* 6 failures 5 s apart, then a 7th at t = 30 that fires with count 7
C2_Witness ==
    /\ Called
    /\ IsFailedLogin(last_event)
    /\ last_event.user_id = "user1"
    /\ recorded.failed_logins["user1"] = <<0, 5, 10, 15, 20, 25, 30>>
    /\ \E i \in FiredOf("failed_login_rate") : returned[i].count = 7

\* C4: when each failed login of a user comes more than 60 s after the one
\* before it, the user's window holds exactly the latest failure and the
\* failure does not fire failed_login_rate.
C4_SpacedFailuresNeverAccumulate ==
    \A u \in DOMAIN recorded.failed_logins :
        LET h == recorded.failed_logins[u]
        IN  SpacedBy(h, 60) =>
                /\ state.failed_logins[u] = <<h[Len(h)]>>
                /\ (IsFailedLogin(last_event) /\ last_event.user_id = u)
                       => FiredOf("failed_login_rate") = {}

\* Three failures of one user, each more than 60 s after the one before
C4_Witness ==
    \E u \in DOMAIN recorded.failed_logins :
        /\ Len(recorded.failed_logins[u]) >= 3
        /\ SpacedBy(recorded.failed_logins[u], 60)
        /\ Len(state.failed_logins[u]) = 1

\* C5: a successful login_attempt fires no failed_login_rate and leaves the
\* failed_logins map (its keys and every window) as it was.
C5_SuccessLeavesWindow ==
    [][(last_event'.type = "login_attempt" /\ last_event'.success) =>
           /\ state'.failed_logins = state.failed_logins
           /\ {i \in 1..Len(returned') : returned'[i].type = "failed_login_rate"} = {}
      ]_vars

\* A successful login has just been processed for a user whose window
\* holds five failures, and holds them still
C5_Witness ==
    /\ Called
    /\ last_event.type = "login_attempt"
    /\ last_event.success
    /\ last_event.user_id \in DOMAIN state.failed_logins
    /\ Len(state.failed_logins[last_event.user_id]) >= 5

----------------------------------------------------------------------------
(* Properties of the sliding windows and of the control-command detector *)

\* h is in non-decreasing order
Sorted(h) == \A i \in 1..(Len(h) - 1) : h[i] <= h[i + 1]

\* The entries of h at most `window` older than the last one, in order
InWindow(h, window) == SelectSeq(h, LAMBDA e : h[Len(h)] - e <= window)

\* The window invariant of one key: history h, stored sequence q
WindowInvariant(h, q, window) ==
    Sorted(h) =>
        /\ Sorted(q)
        /\ \A i \in 1..Len(q) : h[Len(h)] - q[i] <= window
        /\ q = InWindow(h, window)

\* C3: for every key whose events arrived in non-decreasing timestamp order,
\* the stored sequence is in non-decreasing order, holds exactly the key's
\* recorded timestamps e with (current timestamp - e) <= window (60 s for
\* failed logins, 30 s for control commands), and a returned count is the
\* number of those timestamps.
C3_WindowInvariant ==
    /\ \A u \in DOMAIN recorded.failed_logins :
           WindowInvariant(recorded.failed_logins[u], state.failed_logins[u], 60)
    /\ \A k \in DOMAIN recorded.control_commands :
           WindowInvariant(recorded.control_commands[k], state.control_commands[k], 30)
    /\ \A i \in FiredOf("failed_login_rate") :
           LET h == recorded.failed_logins[last_event.user_id]
           IN  Sorted(h) => returned[i].count = Len(InWindow(h, 60))
    /\ \A i \in FiredOf("control_command_rate") :
           LET h == recorded.control_commands[<<last_event.user_id, last_event.device_id>>]
           IN  Sorted(h) => returned[i].count = Len(InWindow(h, 30))

\* Both windows have evicted and both hold an entry exactly at the boundary:
\* a failed login fired with fewer timestamps than were recorded, the oldest
\* of them 60 s old, and a control key holds an entry 30 s old after losing
\* older ones.
C3_Witness ==
    /\ Called
    /\ IsFailedLogin(last_event)
    /\ FiredOf("failed_login_rate") # {}
    /\ LET h == recorded.failed_logins[last_event.user_id]
           q == state.failed_logins[last_event.user_id]
       IN  Sorted(h) /\ Len(q) < Len(h) /\ h[Len(h)] - q[1] = 60
    /\ \E k \in DOMAIN recorded.control_commands :
           LET h == recorded.control_commands[k]
               q == state.control_commands[k]
           IN  Sorted(h) /\ Len(q) < Len(h) /\ h[Len(h)] - q[1] = 30

\* C6: a control_command fires control_command_rate exactly when the count
\* of its (user_id, device_id) window is strictly greater than 20, for role
\* ADMIN or MANAGER at an hour h with 9 <= h < 17, or strictly greater than
\* 10, for any other role or hour; the anomaly carries that count.
C6_ControlRateThreshold ==
    (Called /\ last_event.type = "control_command") =>
        LET key == <<last_event.user_id, last_event.device_id>>
            count == Len(state.control_commands[key])
            h == (last_event.timestamp \div 3600) % 24
            threshold == IF last_event.role \in {"ADMIN", "MANAGER"}
                            /\ 9 <= h /\ h < 17
                         THEN 20 ELSE 10
            fired == FiredOf("control_command_rate")
        IN  /\ Cardinality(fired) <= 1
            /\ (fired # {}) <=> (count > threshold)
            /\ \A i \in fired :
                   /\ returned[i].count = count
                   /\ returned[i].user_id = last_event.user_id
                   /\ returned[i].device_id = last_event.device_id

\* An ADMIN command in business hours has fired at count 21
C6_Witness ==
    /\ Called
    /\ last_event.type = "control_command"
    /\ last_event.role = "ADMIN"
    /\ is_business_hours(last_event.timestamp)
    /\ \E i \in FiredOf("control_command_rate") : returned[i].count = 21

----------------------------------------------------------------------------
(* Properties of the power detector *)

\* The positions of the anomalies of one type in the list returned next
FiredNextOf(type) == {i \in 1..Len(returned') : returned'[i].type = type}

\* The device's history before the step, empty when it has none
HistoryOf(device_id) == DictGet(state.power_readings, device_id, <<>>)

\* h with v appended, and the oldest value dropped when that makes 101
AppendedFifo(h, v) ==
    IF Len(h) = 100 THEN SubSeq(h, 2, 100) \o <<v>> ELSE h \o <<v>>

\* C7: a power reading with value <= 0 returns exactly one anomaly,
\* invalid_power_reading with the device and the value, whatever the
\* device's history, and leaves the power_readings map as it was.
C7_InvalidReading ==
    [][(IsPowerReading(last_event') /\ last_event'.value <= 0) =>
           /\ returned' = << [type |-> "invalid_power_reading",
                               device_id |-> last_event'.device_id,
                               value |-> last_event'.value] >>
           /\ state'.power_readings = state.power_readings
      ]_vars

\* A reading of 0 has fired invalid_power_reading on a device with history
C7_Witness ==
    /\ Called
    /\ IsPowerReading(last_event)
    /\ last_event.value = 0
    /\ FiredOf("invalid_power_reading") # {}
    /\ last_event.device_id \in DOMAIN state.power_readings
    /\ Len(state.power_readings[last_event.device_id]) >= 1

\* C8: a positive power reading fires high_power_reading exactly when the
\* device's history before the reading is non-empty and
\* 2 * value * len(history) > 3 * sum(history); the reported average is
\* that of the history before the reading.
C8_HighReading ==
    [][(IsPowerReading(last_event') /\ last_event'.value > 0) =>
           LET h == HistoryOf(last_event'.device_id)
               v == last_event'.value
               fired == FiredNextOf("high_power_reading")
           IN  /\ Cardinality(fired) <= 1
               /\ (fired # {}) <=>
                      (Len(h) > 0 /\ 2 * v * Len(h) > 3 * SumSeq(h))
               /\ \A i \in fired :
                      /\ returned'[i].value = v
                      /\ returned'[i].average = [sum |-> SumSeq(h), len |-> Len(h)]
      ]_vars

\* A reading of exactly 1.5 times the average of the readings before it has
\* not fired (and so is the last value of the history)
C8_Witness ==
    /\ Called
    /\ IsPowerReading(last_event)
    /\ last_event.value > 0
    /\ FiredOf("high_power_reading") = {}
    /\ LET q == state.power_readings[last_event.device_id]
           h == SubSeq(q, 1, Len(q) - 1)
       IN  /\ Len(q) >= 2 /\ Len(q) < 100
           /\ 2 * last_event.value * Len(h) = 3 * SumSeq(h)

\* C9: every power reading with value > 0 is appended to its device's
\* history, whether or not it fired high_power_reading.
C9_EveryValidReadingAppended ==
    [][(IsPowerReading(last_event') /\ last_event'.value > 0) =>
           state'.power_readings[last_event'.device_id]
               = AppendedFifo(HistoryOf(last_event'.device_id), last_event'.value)
      ]_vars

\* C10: every history holds at most 100 values, all > 0; a step leaves a
\* history as it was or, for a reading with value > 0 of that device, appends
\* the value at the end and drops the oldest value when the history was
\* full; a reading with value > 0 that fires nothing is so appended.
C10_BoundedFifoHistory ==
    /\ [](\A d \in DOMAIN state.power_readings :
             /\ Len(state.power_readings[d]) <= 100
             /\ \A i \in 1..Len(state.power_readings[d]) :
                    state.power_readings[d][i] > 0)
    /\ [][/\ DOMAIN state.power_readings \subseteq DOMAIN state'.power_readings
          /\ \A d \in DOMAIN state'.power_readings :
                LET h == HistoryOf(d)
                    q == state'.power_readings[d]
                    valid == /\ IsPowerReading(last_event')
                             /\ last_event'.device_id = d
                             /\ last_event'.value > 0
                IN  /\ q = h \/ (valid /\ q = AppendedFifo(h, last_event'.value))
                    /\ (valid /\ returned' = <<>>)
                           => q = AppendedFifo(h, last_event'.value)
         ]_vars

\* A full history has taken one more reading and lost its oldest value, the
\* 150 that began it
C10_Witness ==
    /\ Called
    /\ IsPowerReading(last_event)
    /\ last_event.value > 0
    /\ returned = <<>>
    /\ steps >= 2
    /\ last_event.device_id = "appliance1"
    /\ Len(state.power_readings["appliance1"]) = 100
    /\ state.power_readings["appliance1"][1] = 100

----------------------------------------------------------------------------
(* Properties of the command-sequence detector *)

\* The user's history after a command at `timestamp`: the stored entries
\* less than 60 s old, then the command
PrunedAndAppended(stored, command, timestamp) ==
    Append(SelectSeq(stored, LAMBDA c : timestamp - c[2] < 60),
           <<command, timestamp>>)

\* The last commands of history h are those of the configured sequence sq,
\* in order, and the first of them is at most sq.time_window before timestamp
MatchesTail(h, sq, timestamp) ==
    LET n == Len(sq.sequence)
    IN  /\ Len(h) >= n
        /\ \A j \in 1..n : h[Len(h) - n + j][1] = sq.sequence[j]
        /\ timestamp - h[Len(h) - n + 1][2] <= sq.time_window

\* C11: a control_command fires suspicious_sequence exactly when, in the
\* user's own history after pruning and appending, the last len(sequence)
\* commands are a configured sequence in order and the first of them is at
\* most max_span before the event; the anomaly names the user and a sequence
\* that matched.  In particular, when the user's last two commands are
\* disable_alarm then unlock_door, the event fires if the two are at most
\* 10 s apart and does not fire this sequence if they are further apart.
\* Other users' histories are not touched.
C11_SequenceFiresIffTailMatches ==
    [][last_event'.type = "control_command" =>
           LET u == last_event'.user_id
               t == last_event'.timestamp
               h == PrunedAndAppended(DictGet(state.user_commands, u, <<>>),
                                      last_event'.command, t)
               fired == FiredNextOf("suspicious_sequence")
               matching == {k \in 1..Len(suspicious_sequences) :
                               MatchesTail(h, suspicious_sequences[k], t)}
           IN  /\ state'.user_commands[u] = h
               /\ \A v \in DOMAIN state.user_commands \ {u} :
                      state'.user_commands[v] = state.user_commands[v]
               /\ (fired # {}) <=> (matching # {})
               /\ \A i \in fired :
                      /\ returned'[i].user_id = u
                      /\ \E k \in matching :
                             returned'[i].sequence = suspicious_sequences[k].sequence
               /\ (/\ Len(h) >= 2
                   /\ h[Len(h) - 1][1] = "disable_alarm"
                   /\ h[Len(h)][1] = "unlock_door")
                      => ((\E i \in fired :
                              returned'[i].sequence = <<"disable_alarm", "unlock_door">>)
                          <=> t - h[Len(h) - 1][2] <= 10)
      ]_vars

\* Under the list of the source, user1's unlock_door exactly 10 s after
\* user1's disable_alarm has fired, another user having sent commands too
C11_Witness ==
    /\ Called
    /\ suspicious_sequences = SUSPICIOUS_SEQUENCES
    /\ last_event.type = "control_command"
    /\ last_event.user_id = "user1"
    /\ state.user_commands["user1"] = << <<"disable_alarm", 0>>, <<"unlock_door", 10>> >>
    /\ "admin1" \in DOMAIN state.user_commands
    /\ FiredOf("suspicious_sequence") # {}

\* C12: every configured sequence that matches the user's history after a
\* control_command fires its own suspicious_sequence anomaly for that event.
C12_EveryMatchingSequenceFires ==
    [][last_event'.type = "control_command" =>
           LET h == state'.user_commands[last_event'.user_id]
           IN  \A k \in 1..Len(suspicious_sequences) :
                   MatchesTail(h, suspicious_sequences[k], last_event'.timestamp)
                       => \E i \in FiredNextOf("suspicious_sequence") :
                              returned'[i].sequence = suspicious_sequences[k].sequence
      ]_vars

----------------------------------------------------------------------------
(* Properties of the device-access detector *)

\* The device set the module is loaded with for a user, empty when it has none
LoadedProfile(user_id) == DictGet(Loaded.state.user_profiles, user_id, {})

\* C13: a control_command fires unusual_device_access (once, naming the user
\* and the device) exactly when the device is not in the user's profile, an
\* unseen user having the empty profile; the profile consulted is the one
\* the module was loaded with, whatever the role, the timestamp and the
\* events before.
C13_UnusualAccessIffNotInProfile ==
    (Called /\ last_event.type = "control_command") =>
        LET u == last_event.user_id
            d == last_event.device_id
            fired == FiredOf("unusual_device_access")
        IN  /\ Cardinality(fired) <= 1
            /\ (fired # {}) <=> (d \notin LoadedProfile(u))
            /\ (fired # {}) <=> (d \notin DictGet(state.user_profiles, u, {}))
            /\ \A i \in fired :
                   returned[i] = [type |-> "unusual_device_access",
                                  user_id |-> u, device_id |-> d]

\* user1's second command on camera1 has fired like the first
C13_Witness ==
    /\ Called
    /\ last_event.type = "control_command"
    /\ last_event.user_id = "user1"
    /\ last_event.device_id = "camera1"
    /\ Len(recorded.control_commands[<<"user1", "camera1">>]) = 2
    /\ FiredOf("unusual_device_access") # {}

\* C14: the user_profiles map (its user keys and each user's device set) is
\* always the one the module was loaded with.
C14_ProfilesNeverChange == state.user_profiles = Loaded.state.user_profiles

----------------------------------------------------------------------------
(* Properties of process_event *)

\* The position in `detectors` of the detector that fires an anomaly type
DetectorOf(type) ==
    CASE type = "failed_login_rate" -> 1
      [] type = "control_command_rate" -> 2
      [] type \in {"invalid_power_reading", "high_power_reading"} -> 3
      [] type = "unusual_device_access" -> 4
      [] type = "suspicious_sequence" -> 5

\* C15: every event goes through all five detectors, none being skipped
\* after another has fired: a control_command is appended to its rate window
\* and to the user's command history whatever fired, and each of the rate,
\* access and sequence anomalies is in the returned list exactly when its
\* own condition holds; a failed login is appended to its window and a valid
\* quiet reading to its history.  The returned list is in detector order
\* with at most one anomaly per detector.  Each call appends exactly one
\* record to the log, holding the event, the returned list and
\* alert == (the list is not empty).
C15_AllDetectorsInOrderOneRecord ==
    /\ [](Called =>
            /\ \A i, j \in 1..Len(returned) :
                   i < j => DetectorOf(returned[i].type) < DetectorOf(returned[j].type)
            /\ anomaly_log.last.anomalies = returned
            /\ anomaly_log.last.alert = (returned # <<>>)
            /\ anomaly_log.last.event =
                   [last_event EXCEPT !.timestamp = isoformat(@)]
            /\ last_event.type = "control_command" =>
                   LET u == last_event.user_id
                       d == last_event.device_id
                       t == last_event.timestamp
                       q == DictGet(state.control_commands, <<u, d>>, <<>>)
                       h == DictGet(state.user_commands, u, <<>>)
                   IN  /\ q # <<>> /\ q[Len(q)] = t
                       /\ h # <<>> /\ h[Len(h)] = <<last_event.command, t>>
                       /\ (FiredOf("control_command_rate") # {}) <=> (Len(q) > 10)
                       /\ (FiredOf("unusual_device_access") # {})
                              <=> (d \notin LoadedProfile(u))
                       /\ (FiredOf("suspicious_sequence") # {})
                              <=> MatchesTail(h, SUSPICIOUS_SEQUENCES[1], t)
            /\ IsFailedLogin(last_event) =>
                   LET q == DictGet(state.failed_logins, last_event.user_id, <<>>)
                   IN  /\ q # <<>> /\ q[Len(q)] = last_event.timestamp
                       /\ (FiredOf("failed_login_rate") # {}) <=> (Len(q) > 5)
            /\ (IsPowerReading(last_event) /\ returned = <<>>) =>
                   LET q == DictGet(state.power_readings, last_event.device_id, <<>>)
                   IN  q # <<>> /\ q[Len(q)] = last_event.value)
    /\ [][anomaly_log'.lines = anomaly_log.lines + 1]_vars

\* One command has fired the rate, the access and the sequence detectors,
\* and the log's last record holds the three anomalies in that order
C15_Witness ==
    /\ Called
    /\ last_event.type = "control_command"
    /\ Len(returned) = 3
    /\ returned[1].type = "control_command_rate"
    /\ returned[2].type = "unusual_device_access"
    /\ returned[3].type = "suspicious_sequence"
    /\ anomaly_log.last.anomalies = returned
    /\ anomaly_log.last.alert

----------------------------------------------------------------------------
(* Properties of process_event on malformed events and on a failing sink *)

\* The step is a call of process_event
Processes == steps' = steps + 1

\* C16: when a call of process_event gets a control_command without
\* device_id, command or role, or a login_attempt without success, and the
\* log is writable, the call raises nothing, returns a list and appends one
\* record to the log; the detectors that need the missing key contribute no
\* anomaly, and the other detectors have run: without command the rate
\* window has the timestamp and the access anomaly is returned when the
\* device is outside the profile; without device_id or role the command is
\* in the user's history.
C16_FailIsolation ==
    [][(/\ Processes
        /\ anomaly_log.writable
        /\ "timestamp" \in DOMAIN last_event'
        /\ \/ /\ last_event'.type = "control_command"
              /\ Missing(last_event', {"device_id", "command", "role"})
           \/ /\ last_event'.type = "login_attempt"
              /\ Missing(last_event', {"success"}))
       => /\ raised' = NoException
          /\ anomaly_log'.lines = anomaly_log.lines + 1
          /\ anomaly_log'.last.anomalies = returned'
          /\ last_event'.type = "login_attempt" => returned' = <<>>
          /\ (last_event'.type = "control_command"
              /\ Missing(last_event', {"command"})) =>
                 LET u == last_event'.user_id
                     d == last_event'.device_id
                     q == DictGet(state'.control_commands, <<u, d>>, <<>>)
                 IN  /\ FiredNextOf("suspicious_sequence") = {}
                     /\ q # <<>> /\ q[Len(q)] = last_event'.timestamp
                     /\ (FiredNextOf("unusual_device_access") # {})
                            <=> (d \notin LoadedProfile(u))
          /\ (last_event'.type = "control_command"
              /\ Missing(last_event', {"device_id", "role"})) =>
                 LET h == DictGet(state'.user_commands, last_event'.user_id, <<>>)
                 IN  /\ FiredNextOf("control_command_rate") = {}
                     /\ h # <<>>
                     /\ h[Len(h)] = <<last_event'.command, last_event'.timestamp>>
      ]_vars

\* C17: a power reading without a value, the log being writable, returns
\* one anomaly, of a kind of its own that is neither invalid_power_reading
\* nor high_power_reading, and leaves the power_readings map as it was.
C17_MissingValueIsItsOwnAnomaly ==
    [][(/\ Processes
        /\ anomaly_log.writable
        /\ last_event'.type = "sensor_reading"
        /\ last_event'.reading_type = "power"
        /\ Missing(last_event', {"value"}))
       => /\ raised' = NoException
          /\ Len(returned') = 1
          /\ returned'[1].type
                 \notin {"invalid_power_reading", "high_power_reading"}
          /\ state'.power_readings = state.power_readings
      ]_vars

\* The event has every key the detectors and log_event read for its type
WellFormed(e) ==
    /\ ~Missing(e, {"type", "timestamp"})
    /\ e.type = "login_attempt" => ~Missing(e, {"success", "user_id"})
    /\ e.type = "control_command"
           => ~Missing(e, {"user_id", "role", "device_id", "command"})
    /\ e.type = "sensor_reading"
           => ~Missing(e, {"reading_type", "device_id", "value"})

\* C18: when a well-formed event is processed while the log cannot be
\* written, the detector state is the one the same call leaves when the log
\* can be written (nothing is rolled back), the failure is signalled
\* (OSError), and the caller still receives the anomaly list that call
\* computes.
C18_SinkFailureKeepsStateAndList ==
    [][(Processes /\ ~anomaly_log.writable /\ WellFormed(last_event'))
       => LET ok == process_event(
                        [Sys EXCEPT !.anomaly_log.writable = TRUE], last_event')
          IN  /\ state' = ok.state
              /\ raised' = "OSError"
              /\ anomaly_log' = anomaly_log
              /\ returned' = ok.returned
      ]_vars

----------------------------------------------------------------------------
(* Properties of the role-aware filter and of the business-hours predicates *)

\* The local day (since 1970-01-01) and hour of the last call's timestamp
LocalDay ==
    LET local == filter_call.timestamp + filter_call.utcoffset
    IN  CHOOSE d \in 0..13 : d * 86400 <= local /\ local < (d + 1) * 86400

LocalHour ==
    LET local == filter_call.timestamp + filter_call.utcoffset
    IN  CHOOSE h \in 0..23 :
            /\ LocalDay * 86400 + h * 3600 <= local
            /\ local < LocalDay * 86400 + (h + 1) * 3600

\* Days 2, 3, 9 and 10 of 1970 (3, 4, 10 and 11 January) are the Saturdays
\* and Sundays of its first two weeks
LocalWeekend == LocalDay \in {2, 3, 9, 10}

\* C19: filter_event returns True for every role outside the privileged
\* set; for a privileged role it returns True exactly when the filter's
\* business-hours predicate is False at the timestamp (for the default
\* predicate: on a Saturday or Sunday, or at a local hour outside 9..17);
\* the result is the same for every event name, and no call changes the
\* filter object.
C19_FilterEvent ==
    /\ [](\A r \in role_filter.ignore_roles : r \in {"ADMIN", "MANAGER"})
    /\ []((filter_call # None /\ filter_call.call = "filter_event") =>
            LET privileged == filter_call.user_role \in role_filter.ignore_roles
                business ==
                    IF role_filter.is_business_hours.name = "always" THEN TRUE
                    ELSE ~LocalWeekend /\ 9 <= LocalHour /\ LocalHour <= 17
            IN  filter_call.result = (privileged => ~business))
    /\ [][role_filter' = role_filter]_vars

\* An ADMIN event at 17:00:00 local time on a weekday was ignored by a
\* filter with the default predicate, in the zone UTC+05:30
C19_Witness ==
    /\ filter_call # None
    /\ filter_call.call = "filter_event"
    /\ filter_call.user_role = "ADMIN"
    /\ "ADMIN" \in role_filter.ignore_roles
    /\ role_filter.is_business_hours.name = "default_is_business_hours"
    /\ filter_call.utcoffset = 19800
    /\ ~LocalWeekend
    /\ LocalHour = 17
    /\ ~filter_call.result

----------------------------------------------------------------------------
(* Two process_event invocations on two threads                            *)
(*                                                                         *)
(* The program calls process_event from one loop, one event at a time.     *)
(* Here two invocations run on two threads of a caller.  A thread switch   *)
(* can fall between any two statements, so an invocation is a sequence of  *)
(* steps: one per detector call of the loop of process_event, the last     *)
(* detector, check_command_sequence, being three steps: the read of the    *)
(* user's list (line 121), the new filtered list with the command appended *)
(* (lines 122-127, on a list only this invocation holds) and the store     *)
(* back (line 128), after which the invocation matches, logs and returns.  *)
(* `serialized` says whether the caller lets an invocation start only when *)
(* no other one is in progress.  The position `pc` of an invocation is     *)
(* "detectors" while it is about to call the detector of index `next`,     *)
(* then "read", "filter", "store" and "returned".                          *)

Threads == {1, 2}

ThreadEvents ==
    {ControlEvent(u, IF u = "admin1" THEN "ADMIN" ELSE "USER", "alarm1", c, t) :
        u \in {"user1", "admin1"}, c \in {"disable_alarm", "unlock_door"},
        t \in {0, 10}}

Invocation(event) ==
    [event |-> event, pc |-> "detectors", next |-> 1, anomalies |-> <<>>,
     recent_commands |-> <<>>]

InitThreads ==
    /\ suspicious_sequences = SUSPICIOUS_SEQUENCES
    /\ role_filter = None
    /\ filter_call = None
    /\ \E b \in BOOLEAN, e1 \in ThreadEvents, e2 \in ThreadEvents :
           invocations = [serialized |-> b,
                          calls |-> <<Invocation(e1), Invocation(e2)>>]
    /\ login_module = None
    /\ power_module = None
    /\ multi_user = None
    /\ toggle_spam = None
    /\ state = Loaded.state
    /\ anomaly_log = Loaded.anomaly_log
    /\ returned = Loaded.returned
    /\ last_event = Loaded.last_event
    /\ recorded = Loaded.recorded
    /\ raised = Loaded.raised
    /\ steps = 0

\* Variant of MayEnter: the caller never holds an invocation back
MayEnter_unlocked(inv, i) == TRUE

\* for event in events: process_event(event): a serializing caller starts
\* an invocation only when every other one has not started or has returned
MayEnter(inv, i) ==
    inv.serialized =>
        \A j \in Threads \ {i} :
            \/ inv.calls[j].pc = "returned"
            \/ inv.calls[j].pc = "detectors" /\ inv.calls[j].next = 1

\* recent_commands = [(cmd, ts) for cmd, ts in recent_commands if ... < 60]
\* recent_commands.append((command, timestamp))
filter_and_append(recent_commands, command, timestamp) ==
    Append(YoungerThan(recent_commands, timestamp, 60), <<command, timestamp>>)

\* The invocation after the detector it was about to call did r
AfterDetector(call, r) ==
    [call EXCEPT !.pc = IF call.next = Len(detectors) - 1 THEN "read" ELSE @,
                 !.next = @ + 1,
                 !.anomalies = Appended(@, r)]

\* Thread i calls the next of the first four detectors; r is what it does
Detected(i, r) ==
    /\ state' = r.state
    /\ invocations' =
           [invocations EXCEPT !.calls[i] = AfterDetector(@, r)]
    /\ UNCHANGED <<anomaly_log, returned, last_event, recorded, steps, raised,
                   suspicious_sequences, role_filter, filter_call,
                   login_module, power_module, multi_user, toggle_spam>>

Detect(i) ==
    /\ invocations.calls[i].pc = "detectors"
    /\ invocations.calls[i].next = 1 => MayEnter(invocations, i)
    /\ Detected(i, CallDetector(detectors[invocations.calls[i].next],
                                invocations.calls[i].event, state))

\* recent_commands = state["user_commands"].setdefault(user_id, [])
ReadCommands(i) ==
    /\ invocations.calls[i].pc = "read"
    /\ state' = [state EXCEPT !.user_commands =
                     SetDefault(@, invocations.calls[i].event.user_id, <<>>)]
    /\ invocations' =
           [invocations EXCEPT
               !.calls[i].pc = "filter",
               !.calls[i].recent_commands =
                   DictGet(state.user_commands,
                           invocations.calls[i].event.user_id, <<>>)]
    /\ UNCHANGED <<anomaly_log, returned, last_event, recorded, steps, raised,
                   suspicious_sequences, role_filter, filter_call,
                   login_module, power_module, multi_user, toggle_spam>>

\* The filtered copy with the command appended: only this thread holds it
FilterAndAppend(i) ==
    /\ invocations.calls[i].pc = "filter"
    /\ invocations' =
           [invocations EXCEPT
               !.calls[i].pc = "store",
               !.calls[i].recent_commands =
                   filter_and_append(@, invocations.calls[i].event.command,
                                     invocations.calls[i].event.timestamp)]
    /\ UNCHANGED <<state, anomaly_log, returned, last_event, recorded, steps,
                   raised, suspicious_sequences, role_filter, filter_call,
                   login_module, power_module, multi_user, toggle_spam>>

\* The anomalies of an invocation after the sequences were matched against
\* the list it holds (lines 130-140)
WithSequence(call, m) ==
    IF m # 0
    THEN Append(call.anomalies,
                [type |-> "suspicious_sequence",
                 user_id |-> call.event.user_id,
                 sequence |-> suspicious_sequences[m].sequence])
    ELSE call.anomalies

\* The engine after thread i logged the anomalies and returned them
Returns(i, anomalies, l) ==
    /\ anomaly_log' = l.log
    /\ returned' = anomalies
    /\ last_event' = invocations.calls[i].event
    /\ recorded' = Record(recorded, invocations.calls[i].event)
    /\ raised' = l.exception
    /\ steps' = steps + 1
    /\ invocations' =
           [invocations EXCEPT !.calls[i].pc = "returned",
                               !.calls[i].anomalies = anomalies]

Stored(i, anomalies) ==
    Returns(i, anomalies,
            log_event(anomaly_log, invocations.calls[i].event, anomalies))

\* state["user_commands"][user_id] = recent_commands, then the match, and
\* back in process_event: log_event(event, anomalies); return anomalies
StoreAndReturn(i) ==
    /\ invocations.calls[i].pc = "store"
    /\ state' = [state EXCEPT !.user_commands =
                     DictSet(@, invocations.calls[i].event.user_id,
                             invocations.calls[i].recent_commands)]
    /\ Stored(i, WithSequence(invocations.calls[i],
                              FirstMatch(1, invocations.calls[i].recent_commands,
                                         invocations.calls[i].event.timestamp)))
    /\ UNCHANGED <<suspicious_sequences, role_filter, filter_call,
                   login_module, power_module, multi_user, toggle_spam>>

NextThreads ==
    \E i \in Threads :
        \/ Detect(i)
        \/ ReadCommands(i)
        \/ FilterAndAppend(i)
        \/ StoreAndReturn(i)

SpecThreads == InitThreads /\ [][NextThreads]_vars

\* Both invocations have returned
AllReturned == \A i \in Threads : invocations.calls[i].pc = "returned"

\* The engine is as after the two events processed one after the other,
\* the first being the event of thread i
SerialOrder(i, j) ==
    /\ state = Replay(Loaded, <<invocations.calls[i].event,
                                invocations.calls[j].event>>).state
    /\ anomaly_log = Replay(Loaded, <<invocations.calls[i].event,
                                      invocations.calls[j].event>>).anomaly_log

\* C21: when the invocations of process_event are serialized, the state and
\* the log after both have returned are those of one of the two serial
\* orders of the two events; only invocations that were not serialized can
\* leave a state no serial order produces.
C21_SerializedIsSerial ==
    AllReturned =>
        (invocations.serialized => SerialOrder(1, 2) \/ SerialOrder(2, 1))

\* Two invocations for one user, not serialized, have both returned and the
\* user's history holds one command only: the other one is lost, which no
\* serial order of the two events gives.
C21_Witness ==
    /\ AllReturned
    /\ ~invocations.serialized
    /\ invocations.calls[1].event.user_id = invocations.calls[2].event.user_id
    /\ Len(state.user_commands[invocations.calls[1].event.user_id]) = 1
    /\ ~SerialOrder(1, 2)
    /\ ~SerialOrder(2, 1)
    /\ anomaly_log.lines = 2

----------------------------------------------------------------------------
(* The standalone failed-login detector (rate_anom_det_login.py)           *)

\* while q and (current_time - q[0]) > time_window: q.popleft()
RECURSIVE pop_expired(_, _, _)
pop_expired(q, current_time, time_window) ==
    IF q # <<>> /\ current_time - q[1] > time_window
    THEN pop_expired(Tail(q), current_time, time_window)
    ELSE q

\* q.append(timestamp), then the loop that removes from the front
append_then_evict(q, timestamp, time_window) ==
    pop_expired(Append(q, timestamp), timestamp, time_window)

\* context.get("success", True)
ContextSuccess(context) == DictGet(context, "success", TRUE)

\* logging.warning(...): the fields of the message
LoginWarning(user_role, user_id, source_id, attempts, time_window) ==
    [user_id |-> user_id, role |-> user_role, source_id |-> source_id,
     attempts |-> attempts, time_window |-> time_window]

\* The log after the part of detect_failed_logins that follows the loop,
\* q being failed_attempts[user_id]; the queue cleared at line 56 is the
\* local one
WarnAtThreshold(log, q, user_role, user_id, source_id, threshold, time_window) ==
    IF Len(q) >= threshold
    THEN Append(log, LoginWarning(user_role, user_id, source_id, Len(q),
                                  time_window))
    ELSE log

\* detect_failed_logins(...): the log file after the call.  failed_attempts
\* is made anew, empty, by line 33 of every call: the queue the timestamp is
\* appended to is the empty one, and nothing of it is left after the call.
detect_failed_logins(log, event_name, user_role, user_id, source_id, timestamp, context, threshold, time_window) ==
    IF event_name # "login_attempt" \/ ContextSuccess(context) THEN log
    ELSE WarnAtThreshold(log,
                         append_then_evict(DictGet(EmptyDict, user_id, <<>>),
                                           timestamp, time_window),
                         user_role, user_id, source_id, threshold, time_window)

MaxLoginCalls == 5

LoginCallContexts ==
    {EmptyDict, DictSet(EmptyDict, "success", TRUE),
     DictSet(EmptyDict, "success", FALSE)}
\* The threshold passed by the caller: the default and a smaller one
LoginCallThresholds == {2, 5}
DefaultTimeWindow == 300

\* The module is imported: an empty log file, no call made; `attempts` is
\* the history of the failed attempts handed to the function, per user
InitLoginCalls ==
    /\ suspicious_sequences = SUSPICIOUS_SEQUENCES
    /\ role_filter = None
    /\ filter_call = None
    /\ invocations = None
    /\ \E threshold \in LoginCallThresholds :
           login_module = [log |-> <<>>, attempts |-> EmptyDict, calls |-> 0,
                           threshold |-> threshold,
                           time_window |-> DefaultTimeWindow]
    /\ power_module = None
    /\ multi_user = None
    /\ toggle_spam = None
    /\ state = Loaded.state
    /\ anomaly_log = Loaded.anomaly_log
    /\ returned = Loaded.returned
    /\ last_event = Loaded.last_event
    /\ recorded = Loaded.recorded
    /\ raised = Loaded.raised
    /\ steps = 0

\* The history with the failed attempt of a call added
Attempted(attempts, event_name, user_id, timestamp, context) ==
    IF event_name = "login_attempt" /\ ~ContextSuccess(context)
    THEN DictSet(attempts, user_id,
                 Append(DictGet(attempts, user_id, <<>>), timestamp))
    ELSE attempts

\* One call detect_failed_logins(event_name, "USER", user_id, "10.0.0.1",
\* timestamp, context, threshold, time_window)
LoginCall ==
    /\ login_module.calls < MaxLoginCalls
    /\ \E event_name \in {"login_attempt", "logout"}, user_id \in {"u123", "u456"},
          timestamp \in {0, 400}, context \in LoginCallContexts :
           login_module' =
               [login_module EXCEPT
                   !.log = detect_failed_logins(@, event_name, "USER", user_id,
                                                "10.0.0.1", timestamp, context,
                                                login_module.threshold,
                                                login_module.time_window),
                   !.attempts = Attempted(@, event_name, user_id, timestamp,
                                          context),
                   !.calls = @ + 1]
    /\ UNCHANGED <<state, anomaly_log, returned, last_event, recorded, steps,
                   raised, suspicious_sequences, role_filter, filter_call,
                   invocations, power_module, multi_user, toggle_spam>>

SpecLoginCalls == InitLoginCalls /\ [][LoginCall]_vars

\* The number of warnings a queue kept across calls gives for the failed
\* attempts h[i..] of one user: each is appended, the expired front entries
\* are removed, and at the threshold a warning is logged and the queue
\* cleared
RECURSIVE KeptAcrossCalls(_, _, _, _, _)
KeptAcrossCalls(h, i, q, threshold, time_window) ==
    IF i > Len(h) THEN 0
    ELSE LET q2 == append_then_evict(q, h[i], time_window)
         IN  IF Len(q2) >= threshold
             THEN 1 + KeptAcrossCalls(h, i + 1, <<>>, threshold, time_window)
             ELSE KeptAcrossCalls(h, i + 1, q2, threshold, time_window)

\* The number of warnings logged for a user
WarningsFor(user_id) ==
    Cardinality({i \in 1..Len(login_module.log) :
                    login_module.log[i].user_id = user_id})

\* C22: detect_failed_logins keeps the failed attempts of each user across
\* calls: the warnings logged for a user are those of a queue that lives
\* from call to call, one at each call where the attempts within
\* time_window reach the threshold, the queue being cleared then.
C22_FiresOnceThenResets ==
    \A user_id \in DOMAIN login_module.attempts :
        WarningsFor(user_id) =
            KeptAcrossCalls(login_module.attempts[user_id], 1, <<>>,
                            login_module.threshold, login_module.time_window)

----------------------------------------------------------------------------
(* The standalone power detector (val_anom_det_pwr_consum.py)              *)

\* while q and (current_time - q[0][0]) > time_window: q.popleft()
RECURSIVE pop_expired_readings(_, _, _)
pop_expired_readings(q, current_time, time_window) ==
    IF q # <<>> /\ current_time - q[1][1] > time_window
    THEN pop_expired_readings(Tail(q), current_time, time_window)
    ELSE q

\* historical_values = [reading[1] for reading in power_readings[source_id]]
ReadingValues(q) == [i \in 1..Len(q) |-> q[i][2]]

\* Variant of EnoughReadings: the stored readings must outnumber min_readings
EnoughReadings_more(q, min_readings) == Len(q) > min_readings

\* if len(power_readings[source_id]) < min_readings: return
EnoughReadings(q, min_readings) == ~(Len(q) < min_readings)

\* power_value > statistics.mean(historical_values) * 1.5, in integers
AboveThreshold(power_value, q) ==
    2 * power_value * Len(q) > 3 * SumSeq(ReadingValues(q))

\* What a call leaves: the readings, and the warnings it logged
PowerOutcome(readings, logged) == [power_readings |-> readings, logged |-> logged]

\* The part of detect_anomalous_power after the eviction loop, q being
\* power_readings[source_id], the current reading included
CompareWithAverage(readings, source_id, power_value, q, min_readings) ==
    PowerOutcome(DictSet(readings, source_id, q),
                 IF EnoughReadings(q, min_readings) /\ AboveThreshold(power_value, q)
                 THEN <<[warning |-> "Anomalous power consumption detected",
                         source_id |-> source_id,
                         power_value |-> power_value]>>
                 ELSE <<>>)

\* detect_anomalous_power(..., threshold_factor=1.5, time_window, min_readings)
detect_anomalous_power(readings, event_name, user_role, user_id, source_id, timestamp, context, time_window, min_readings) ==
    IF event_name # "power_reading" THEN PowerOutcome(readings, <<>>)
    ELSE IF "value" \notin DOMAIN context
    THEN PowerOutcome(readings,
                      <<[warning |-> "Missing power value in event",
                         source_id |-> source_id]>>)
    ELSE IF context.value <= 0
    THEN PowerOutcome(readings,
                      <<[warning |-> "Invalid power reading detected",
                         source_id |-> source_id,
                         power_value |-> context.value]>>)
    ELSE CompareWithAverage(
             readings, source_id, context.value,
             pop_expired_readings(
                 Append(DictGet(readings, source_id, <<>>),
                        <<timestamp, context.value>>),
                 timestamp, time_window),
             min_readings)

MaxPowerCalls == 5

DefaultPowerWindow == 86400
DefaultMinReadings == 5

\* The calls made: readings of two devices, in and out of the window, and
\* calls the function leaves early
PowerCalls ==
    {[event_name |-> "power_reading", source_id |-> "device_001",
      timestamp |-> 0, context |-> DictSet(EmptyDict, "value", 100)],
     [event_name |-> "power_reading", source_id |-> "device_001",
      timestamp |-> 0, context |-> DictSet(EmptyDict, "value", 1000)],
     [event_name |-> "power_reading", source_id |-> "device_001",
      timestamp |-> 100000, context |-> DictSet(EmptyDict, "value", 100)],
     [event_name |-> "power_reading", source_id |-> "device_002",
      timestamp |-> 0, context |-> DictSet(EmptyDict, "value", 100)],
     [event_name |-> "power_reading", source_id |-> "device_002",
      timestamp |-> 0, context |-> DictSet(EmptyDict, "value", 0 - 10)],
     [event_name |-> "power_reading", source_id |-> "device_001",
      timestamp |-> 0, context |-> EmptyDict],
     [event_name |-> "login_attempt", source_id |-> "device_001",
      timestamp |-> 0, context |-> DictSet(EmptyDict, "value", 1000)]}

\* The module is imported: power_readings is empty, nothing is logged
InitPowerCalls ==
    /\ suspicious_sequences = SUSPICIOUS_SEQUENCES
    /\ role_filter = None
    /\ filter_call = None
    /\ invocations = None
    /\ login_module = None
    /\ power_module = [power_readings |-> EmptyDict, logged |-> <<>>,
                       last_call |-> None, calls |-> 0]
    /\ multi_user = None
    /\ toggle_spam = None
    /\ state = Loaded.state
    /\ anomaly_log = Loaded.anomaly_log
    /\ returned = Loaded.returned
    /\ last_event = Loaded.last_event
    /\ recorded = Loaded.recorded
    /\ raised = Loaded.raised
    /\ steps = 0

\* The module after a call that left r
AfterPowerCall(call, r) ==
    [power_readings |-> r.power_readings, logged |-> r.logged,
     last_call |-> call, calls |-> power_module.calls + 1]

\* One call detect_anomalous_power(event_name, "USER", "u123", source_id,
\* timestamp, context) with the default arguments
PowerCall ==
    /\ power_module.calls < MaxPowerCalls
    /\ \E call \in PowerCalls :
           power_module' =
               AfterPowerCall(call,
                   detect_anomalous_power(power_module.power_readings,
                                          call.event_name, "USER", "u123",
                                          call.source_id, call.timestamp,
                                          call.context, DefaultPowerWindow,
                                          DefaultMinReadings))
    /\ UNCHANGED <<state, anomaly_log, returned, last_event, recorded, steps,
                   raised, suspicious_sequences, role_filter, filter_call,
                   invocations, login_module, multi_user, toggle_spam>>

SpecPowerCalls == InitPowerCalls /\ [][PowerCall]_vars

\* The last call handed the function a power reading with a positive value
ValidReading ==
    /\ power_module.last_call # None
    /\ power_module.last_call.event_name = "power_reading"
    /\ "value" \in DOMAIN power_module.last_call.context
    /\ power_module.last_call.context.value > 0

\* The readings stored for the device of the last call, the current included
StoredForDevice ==
    power_module.power_readings[power_module.last_call.source_id]

\* The last call logged the warning of the high-reading comparison
WarnedAnomalous ==
    /\ power_module.logged # <<>>
    /\ power_module.logged[1].warning = "Anomalous power consumption detected"

\* C23 (as the program does it): the high-reading comparison is made, and can
\* log its warning, exactly when at least 5 readings are stored for the
\* device within the time window, the current reading counted among them:
\* four earlier readings are enough, and the average is over all five.
C23_FiveReadingsCountingCurrent ==
    ValidReading =>
        /\ StoredForDevice[Len(StoredForDevice)] =
               <<power_module.last_call.timestamp,
                 power_module.last_call.context.value>>
        /\ WarnedAnomalous <=>
               /\ Len(StoredForDevice) >= 5
               /\ 2 * power_module.last_call.context.value * Len(StoredForDevice)
                      > 3 * SumSeq(ReadingValues(StoredForDevice))

\* The fifth reading of a device, after four readings of 100 W, is 1000 W
\* and is reported
C23_Witness ==
    /\ ValidReading
    /\ Len(StoredForDevice) = 5
    /\ power_module.last_call.context.value = 1000
    /\ \A i \in 1..4 : StoredForDevice[i][2] = 100
    /\ WarnedAnomalous

\* C23 (as stated): no high-reading comparison is made for a device until
\* at least 5 historical readings, not counting the current one, are stored
\* for it: a call that reports a high reading has five earlier readings.
C23_FiveHistoricalReadings ==
    (ValidReading /\ WarnedAnomalous) => Len(StoredForDevice) - 1 >= 5

----------------------------------------------------------------------------
(* The multi-user control detector (multi_user_control_det.py)             *)

\* MultiUserControlDetector(time_window)
MultiUserControlDetector(time_window) ==
    [time_window |-> time_window, last_control |-> EmptyDict]

\* What a method call leaves: the object and the value returned
MethodResult(self, result) == [self |-> self, result |-> result]

\* `not device_id`: context.get("device_id") is None or the empty string
Falsy(context, key) == key \notin DOMAIN context \/ context[key] = ""

\* The test made on prev_control, the entry read before line 37 replaced it
DifferentUserWithin(self, prev_control, user_id, timestamp) ==
    /\ prev_control # None
    /\ prev_control[2] # user_id
    /\ timestamp - prev_control[1] < self.time_window

\* MultiUserControlDetector.detect(self, event_name, ..., context)
detect(self, event_name, user_role, user_id, source_id, timestamp, context) ==
    IF event_name # "toggle_device" THEN MethodResult(self, FALSE)
    ELSE IF Falsy(context, "device_id") THEN MethodResult(self, FALSE)
    ELSE MethodResult(
             [self EXCEPT !.last_control =
                 DictSet(@, context.device_id, <<timestamp, user_id>>)],
             DifferentUserWithin(self,
                                 DictGet(self.last_control, context.device_id, None),
                                 user_id, timestamp))

MaxToggleCalls == 3

\* The calls made: two users on one device at three times, one of them on
\* another device, a call without device_id and one of another event name
ToggleCalls ==
    {[event_name |-> "toggle_device", user_id |-> u, timestamp |-> t,
      context |-> DictSet(EmptyDict, "device_id", "lamp")] :
        u \in {"alice", "bob"}, t \in {0, 10, 70}}
    \cup
    {[event_name |-> "toggle_device", user_id |-> "bob", timestamp |-> 10,
      context |-> DictSet(EmptyDict, "device_id", "plug")],
     [event_name |-> "toggle_device", user_id |-> "bob", timestamp |-> 10,
      context |-> EmptyDict],
     [event_name |-> "set_temperature", user_id |-> "bob", timestamp |-> 10,
      context |-> DictSet(EmptyDict, "device_id", "lamp")]}

\* A detector is made with the default window; `history` is the list of
\* the calls made on it
InitMultiUser ==
    /\ suspicious_sequences = SUSPICIOUS_SEQUENCES
    /\ role_filter = None
    /\ filter_call = None
    /\ invocations = None
    /\ login_module = None
    /\ power_module = None
    /\ multi_user = [self |-> MultiUserControlDetector(60), result |-> FALSE,
                     history |-> <<>>]
    /\ toggle_spam = None
    /\ state = Loaded.state
    /\ anomaly_log = Loaded.anomaly_log
    /\ returned = Loaded.returned
    /\ last_event = Loaded.last_event
    /\ recorded = Loaded.recorded
    /\ raised = Loaded.raised
    /\ steps = 0

AfterDetect(call, r) ==
    [self |-> r.self, result |-> r.result,
     history |-> Append(multi_user.history, call)]

\* One call detector.detect(event_name, "USER", user_id, "app", timestamp,
\* context)
DetectCall ==
    /\ Len(multi_user.history) < MaxToggleCalls
    /\ \E call \in ToggleCalls :
           multi_user' =
               AfterDetect(call,
                           detect(multi_user.self, call.event_name, "USER",
                                  call.user_id, "app", call.timestamp,
                                  call.context))
    /\ UNCHANGED <<state, anomaly_log, returned, last_event, recorded, steps,
                   raised, suspicious_sequences, role_filter, filter_call,
                   invocations, login_module, power_module, toggle_spam>>

SpecMultiUser == InitMultiUser /\ [][DetectCall]_vars

\* A call is a toggle_device event that names a device
IsToggle(call) ==
    call.event_name = "toggle_device" /\ ~Falsy(call.context, "device_id")

\* C24: detect returns True for a toggle_device event on a device whenever
\* a different user toggled that same device less than time_window seconds
\* before it, whatever toggles lie in between.
C24_DifferentUserWithinWindow ==
    LET h == multi_user.history
        n == Len(h)
    IN  (n > 0 /\ IsToggle(h[n])) =>
            ((\E i \in 1..(n - 1) :
                  /\ IsToggle(h[i])
                  /\ h[i].context.device_id = h[n].context.device_id
                  /\ h[i].user_id # h[n].user_id
                  /\ h[n].timestamp - h[i].timestamp >= 0
                  /\ h[n].timestamp - h[i].timestamp < multi_user.self.time_window)
             => multi_user.result)

----------------------------------------------------------------------------
(* The two orders of a window update *)

\* The sequence a store that appends and then evicts from the front holds
\* after the timestamps h[1..n] of one key, from the empty sequence
RECURSIVE AppendEvictStore(_, _, _)
AppendEvictStore(h, n, window) ==
    IF n = 0 THEN <<>>
    ELSE append_then_evict(AppendEvictStore(h, n - 1, window), h[n], window)

\* The count the engine took for the key of the last event, when it
\* reported one: the count field of the rate anomaly
CountsReported(type) == {returned[i].count : i \in FiredOf(type)}

\* C25: the engine's window update (evict from the front, then append) and
\* the update that appends and then evicts from the front, run side by side
\* on the timestamps of every key in the order they arrived, out of order
\* or not, hold the same sequence after every call, and the count the engine
\* compares and reports is the length of that sequence.
C25_EvictAppendIsAppendEvict ==
    /\ \A user_id \in DOMAIN state.failed_logins :
           state.failed_logins[user_id] =
               AppendEvictStore(recorded.failed_logins[user_id],
                                Len(recorded.failed_logins[user_id]),
                                FAILED_LOGIN_WINDOW)
    /\ \A key \in DOMAIN state.control_commands :
           state.control_commands[key] =
               AppendEvictStore(recorded.control_commands[key],
                                Len(recorded.control_commands[key]),
                                CONTROL_COMMAND_WINDOW)
    /\ (Called /\ IsFailedLogin(last_event)) =>
           LET count == Len(AppendEvictStore(
                                recorded.failed_logins[last_event.user_id],
                                Len(recorded.failed_logins[last_event.user_id]),
                                FAILED_LOGIN_WINDOW))
           IN  CountsReported("failed_login_rate") =
                   IF count > FAILED_LOGIN_THRESHOLD THEN {count} ELSE {}
    /\ (Called /\ last_event.type = "control_command") =>
           LET key == <<last_event.user_id, last_event.device_id>>
               count == Len(AppendEvictStore(recorded.control_commands[key],
                                             Len(recorded.control_commands[key]),
                                             CONTROL_COMMAND_WINDOW))
           IN  CountsReported("control_command_rate") =
                   IF count > CONTROL_COMMAND_THRESHOLD THEN {count} ELSE {}

\* A command arrives 31 s after ten commands of one instant: every stored
\* entry is expired, and the store holds the new timestamp alone; then a
\* command with an earlier timestamp arrives and is stored after it
C25_Witness ==
    /\ Called
    /\ last_event.type = "control_command"
    /\ LET key == <<last_event.user_id, last_event.device_id>>
       IN  /\ Len(recorded.control_commands[key]) = CONTROL_COMMAND_THRESHOLD + 2
           /\ state.control_commands[key] = <<31, 1>>

----------------------------------------------------------------------------
(* The stored command history *)

\* The positions of a history whose entry is less than 60 s old at time t
Recent(h, t) == {i \in 1..Len(h) : t - h[i][2] < 60}

\* C26: after a control_command at time t the user's stored history is the
\* previously stored entries less than 60 s old, in their order, wherever
\* they sit in the list, an entry exactly 60 s old being dropped, followed by
\* the new (command, t) as last element; this is what is stored whether or
\* not a sequence fired.
C26_HistoryIsPrunedThenAppended ==
    [][last_event'.type = "control_command" =>
           LET t == last_event'.timestamp
               old == DictGet(state.user_commands, last_event'.user_id, <<>>)
               new == state'.user_commands[last_event'.user_id]
           IN  /\ Len(new) = Cardinality(Recent(old, t)) + 1
               /\ new[Len(new)] = <<last_event'.command, t>>
               /\ \A j \in 1..(Len(new) - 1) : t - new[j][2] < 60
               /\ \A i \in Recent(old, t) :
                      new[Cardinality({k \in Recent(old, t) : k <= i})] = old[i]
      ]_vars

\* user1's commands came at 11, 10 and 70: at 70 the second entry of the
\* list is exactly 60 s old and is dropped, the first, 59 s old, is kept
C26_Witness ==
    /\ Called
    /\ last_event.type = "control_command"
    /\ last_event.user_id = "user1"
    /\ recorded.control_commands[<<"user1", "alarm1">>] = <<11, 10, 70>>
    /\ Len(state.user_commands["user1"]) = 2
    /\ state.user_commands["user1"][1][2] = 11
    /\ state.user_commands["user1"][2][2] = 70
    /\ FiredOf("suspicious_sequence") = {}

----------------------------------------------------------------------------
(* The slices of the state *)

Slices ==
    {"failed_logins", "control_commands", "power_readings", "user_profiles",
     "user_commands"}

\* The slices an event of a type may change
OwnSlices(e) ==
    IF e.type = "login_attempt" THEN {"failed_logins"}
    ELSE IF e.type = "control_command" THEN {"control_commands", "user_commands"}
    ELSE IF IsPowerReading(e) THEN {"power_readings"}
    ELSE {}

\* The slices the detectors of an event's type read
ReadSlices(e) ==
    IF e.type = "control_command" THEN OwnSlices(e) \cup {"user_profiles"}
    ELSE OwnSlices(e)

\* The system with every slice outside `kept` as the module is loaded
OnlySlices(kept) ==
    [Sys EXCEPT !.state = [k \in Slices |->
                              IF k \in kept THEN state[k] ELSE Loaded.state[k]]]

\* C27: each detector changes only its own slice of state: a login_attempt
\* only failed_logins, a power sensor_reading only power_readings, a
\* control_command only control_commands and user_commands, and any other
\* event nothing, with an empty anomaly list and alert false; the anomalies
\* of an event do not depend on the slices of the other detectors.
C27_OnlyOwnSlice ==
    [][(Processes /\ WellFormed(last_event') /\ raised' = NoException) =>
           /\ \A k \in Slices \ OwnSlices(last_event') : state'[k] = state[k]
           /\ OwnSlices(last_event') = {} =>
                  /\ returned' = <<>>
                  /\ ~anomaly_log'.last.alert
           /\ returned' =
                  process_event(OnlySlices(ReadSlices(last_event')),
                                last_event').returned
      ]_vars

----------------------------------------------------------------------------
(* Events of different keys *)

\* Events of user1, camera1 and appliance1
CommuteFirst ==
    {LoginEvent("user1", t, FALSE) : t \in {5, 40}}
    \cup {ControlEvent("user1", "USER", "camera1", "unlock_door", t) : t \in {5, 40}}
    \cup {SensorEvent("appliance1", "power", 151, t) : t \in {5, 40}}

\* Events of other users and other devices, at earlier timestamps
CommuteSecond ==
    {LoginEvent("admin1", t, FALSE) : t \in {0, 36}}
    \cup {ControlEvent("guest", "USER", "light1", "disable_alarm", t) : t \in {0, 36}}
    \cup {ControlEvent("admin1", "ADMIN", "door1", "unlock_door", t) : t \in {0, 36}}
    \cup {SensorEvent("appliance2", "power", 100, t) : t \in {0, 36}}

\* The two events share no user_id and no device_id
DisjointKeys(e1, e2) ==
    /\ ("user_id" \in DOMAIN e1 /\ "user_id" \in DOMAIN e2)
           => e1.user_id # e2.user_id
    /\ ("device_id" \in DOMAIN e1 /\ "device_id" \in DOMAIN e2)
           => e1.device_id # e2.device_id

\* a and b are the system after e1 alone and after e2 alone, ab and ba after
\* both: the same detector state, and for each event the same anomalies
\* whether it came first or second
SameEitherOrder(a, b, ab, ba) ==
    /\ ab.state = ba.state
    /\ ab.returned = b.returned
    /\ ba.returned = a.returned
    /\ ab.anomaly_log.lines = ba.anomaly_log.lines

CommuteFrom(e1, e2, a, b) ==
    SameEitherOrder(a, b, process_event(a, e2), process_event(b, e1))

\* C28: from every state, two events of different user_id and different
\* device_id, processed in either order, give the same anomaly list for each
\* event (the list it gives when processed without the other) and the same
\* final state, also when the second has the earlier timestamp.
C28_DisjointKeysCommute ==
    \A e1 \in CommuteFirst, e2 \in CommuteSecond :
        DisjointKeys(e1, e2) =>
            CommuteFrom(e1, e2, process_event(Sys, e1), process_event(Sys, e2))

\* After ten commands of user1 on camera1 and more events: a further
\* command at 5 is over the rate threshold, and a command of guest on light1 at 0, an earlier
\* timestamp, is an unusual access; both fire in either order
C28_Witness ==
    /\ steps > 0
    /\ Len(DictGet(state.control_commands, <<"user1", "camera1">>, <<>>))
           >= CONTROL_COMMAND_THRESHOLD
    /\ \E e1 \in CommuteFirst, e2 \in CommuteSecond :
           /\ DisjointKeys(e1, e2)
           /\ e2.timestamp < e1.timestamp
           /\ e1.type = "control_command"
           /\ e2.type = "control_command"
           /\ process_event(Sys, e1).returned # <<>>
           /\ process_event(process_event(Sys, e1), e2).returned # <<>>
           /\ process_event(process_event(Sys, e2), e1).returned
                  = process_event(Sys, e1).returned

----------------------------------------------------------------------------
(* The toggle spam detector (rate_anom_det_toggle.py)                      *)

\* ToggleSpamDetector(max_commands, time_window)
ToggleSpamDetector(max_commands, time_window) ==
    [max_commands |-> max_commands, time_window |-> time_window,
     commands |-> EmptyDict]

\* Variant of within_window that drops a command exactly time_window old
RECURSIVE within_window_lt(_, _, _)
within_window_lt(commands, timestamp, time_window) ==
    IF commands = <<>> THEN <<>>
    ELSE IF timestamp - Head(commands)[1] < time_window
    THEN <<Head(commands)>> \o within_window_lt(Tail(commands), timestamp, time_window)
    ELSE within_window_lt(Tail(commands), timestamp, time_window)

\* [cmd for cmd in commands if timestamp - cmd[0] <= self.time_window]
RECURSIVE within_window(_, _, _)
within_window(commands, timestamp, time_window) ==
    IF commands = <<>> THEN <<>>
    ELSE IF timestamp - Head(commands)[1] <= time_window
    THEN <<Head(commands)>> \o within_window(Tail(commands), timestamp, time_window)
    ELSE within_window(Tail(commands), timestamp, time_window)

\* self._log_suspicious_activity(...): the fields of the message logged
SuspiciousActivity(self, source_id, event_name, user_role, user_id, context) ==
    [source_id |-> source_id, event_name |-> event_name, user_id |-> user_id,
     user_role |-> user_role, commands |-> Len(self.commands[source_id]),
     time_window |-> self.time_window, context |-> context]

\* The rest of log_control_command with the filtered list stored: `result`
\* is the list of the messages the call logged
CheckFrequency(self, event_name, user_role, user_id, source_id, context) ==
    MethodResult(self,
                 IF Len(self.commands[source_id]) > self.max_commands
                 THEN <<SuspiciousActivity(self, source_id, event_name,
                                           user_role, user_id, context)>>
                 ELSE <<>>)

\* ToggleSpamDetector.log_control_command(self, event_name, ..., context)
log_control_command(self, event_name, user_role, user_id, source_id, timestamp, context) ==
    CheckFrequency(
        [self EXCEPT !.commands =
            DictSet(@, source_id,
                    within_window(
                        Append(DictGet(@, source_id, <<>>),
                               <<timestamp, event_name, user_role, user_id,
                                 context>>),
                        timestamp, self.time_window))],
        event_name, user_role, user_id, source_id, context)

MaxSpamCalls == 4

\* The calls made: commands from one source at three times, one of another
\* event name, and a command from another source
SpamCalls ==
    {[event_name |-> "toggle_device", source_id |-> "192.168.1.1",
      timestamp |-> t] : t \in {0, 30, 31}}
    \cup
    {[event_name |-> "set_temperature", source_id |-> "192.168.1.1",
      timestamp |-> 0],
     [event_name |-> "toggle_device", source_id |-> "device_789",
      timestamp |-> 0]}

\* detector = ToggleSpamDetector(max_commands=3, time_window=30)
InitToggle ==
    /\ suspicious_sequences = SUSPICIOUS_SEQUENCES
    /\ role_filter = None
    /\ filter_call = None
    /\ invocations = None
    /\ login_module = None
    /\ power_module = None
    /\ multi_user = None
    /\ toggle_spam = [self |-> ToggleSpamDetector(3, 30), result |-> <<>>,
                      last_call |-> None, calls |-> 0]
    /\ state = Loaded.state
    /\ anomaly_log = Loaded.anomaly_log
    /\ returned = Loaded.returned
    /\ last_event = Loaded.last_event
    /\ recorded = Loaded.recorded
    /\ raised = Loaded.raised
    /\ steps = 0

AfterSpamCall(call, r) ==
    [self |-> r.self, result |-> r.result, last_call |-> call,
     calls |-> toggle_spam.calls + 1]

\* One call detector.log_control_command(event_name, "USER", "user123",
\* source_id, timestamp, {})
SpamCall ==
    /\ toggle_spam.calls < MaxSpamCalls
    /\ \E call \in SpamCalls :
           toggle_spam' =
               AfterSpamCall(call,
                   log_control_command(toggle_spam.self, call.event_name,
                                       "USER", "user123", call.source_id,
                                       call.timestamp, EmptyDict))
    /\ UNCHANGED <<state, anomaly_log, returned, last_event, recorded, steps,
                   raised, suspicious_sequences, role_filter, filter_call,
                   invocations, login_module, power_module, multi_user>>

SpecToggle == InitToggle /\ [][SpamCall]_vars

\* The positions of a list of commands whose entry is at most time_window
\* older than timestamp
Kept(commands, timestamp, time_window) ==
    {i \in 1..Len(commands) : timestamp - commands[i][1] <= time_window}

\* C29: log_control_command appends the event to the list of its source_id,
\* whatever the event_name, then keeps exactly the entries of that source at
\* most time_window older than the event, in their order, wherever they sit
\* in the list, and logs suspicious activity exactly when more than
\* max_commands entries are kept; the lists of other sources are unchanged.
C29_RecordsFiltersReports ==
    [][toggle_spam'.calls = toggle_spam.calls + 1 =>
           LET call == toggle_spam'.last_call
               self == toggle_spam.self
               old == DictGet(self.commands, call.source_id, <<>>)
               new == toggle_spam'.self.commands[call.source_id]
               kept == Kept(old, call.timestamp, self.time_window)
           IN  /\ Len(new) = Cardinality(kept) + 1
               /\ new[Len(new)][1] = call.timestamp
               /\ new[Len(new)][2] = call.event_name
               /\ \A i \in kept : new[Cardinality({k \in kept : k <= i})] = old[i]
               /\ (toggle_spam'.result # <<>>) <=> (Len(new) > self.max_commands)
               /\ DOMAIN toggle_spam'.self.commands
                      = DOMAIN self.commands \cup {call.source_id}
               /\ \A other \in DOMAIN self.commands \ {call.source_id} :
                      toggle_spam'.self.commands[other] = self.commands[other]
      ]_vars

\* The fourth command of a source arrives 30 s after the first: all four are
\* kept, one of them of another event name, and the call reports; another
\* source has its own list
C29_Witness ==
    /\ toggle_spam.result # <<>>
    /\ toggle_spam.result[1].commands = 4
    /\ toggle_spam.last_call.timestamp = 30
    /\ toggle_spam.self.commands[toggle_spam.last_call.source_id][1][1] = 0
    /\ \E i \in 1..4 :
           toggle_spam.self.commands[toggle_spam.last_call.source_id][i][2]
               = "set_temperature"

====
